---- MODULE Spec2Model ----
(***************************************************************************)
(* A model of the Replicate proxy's chat-completion pipeline: the request  *)
(* handler chain with its nested withTimeout races (main.ts handler,       *)
(* handleChatCompletionRequest, handleNonStreamResponse /                  *)
(* handleStreamResponse), the ApiService async generator                   *)
(* streamModelResponse with its stream -> run fallback, getModelResponse,  *)
(* the error classification, and the SSE encoder.                          *)
(*                                                                         *)
(* Text is a sequence of one-character strings, so that trim(), slice()    *)
(* and join() are computed as the code computes them.                      *)
(***************************************************************************)
EXTENDS Integers, Sequences, FiniteSets, TLC

(***************************************************************************)
(* Bounds of the model.                                                    *)
(***************************************************************************)
\* the backend stream delivers at most this many raw items before it ends or fails
MaxRawItems == 3

(***************************************************************************)
(* Text helpers (JavaScript string operations).                            *)
(***************************************************************************)
IsWhitespace(c) == c \in {" ", "\n", "\t"}

RECURSIVE TrimStart(_)
TrimStart(s) ==
    IF s = <<>> THEN <<>>
    ELSE IF IsWhitespace(Head(s)) THEN TrimStart(Tail(s)) ELSE s

RECURSIVE TrimEnd(_)
TrimEnd(s) ==
    IF s = <<>> THEN <<>>
    ELSE IF IsWhitespace(s[Len(s)]) THEN TrimEnd(SubSeq(s, 1, Len(s) - 1)) ELSE s

\* String.prototype.trim
Trim(s) == TrimEnd(TrimStart(s))

\* String.prototype.slice(i, j) with 0-based i <= j, clipped to the length
Slice(s, i, j) == SubSeq(s, i + 1, IF j < Len(s) THEN j ELSE Len(s))

\* Array.prototype.join("") over an array of strings
RECURSIVE JoinEmpty(_)
JoinEmpty(parts) ==
    IF parts = <<>> THEN <<>> ELSE Head(parts) \o JoinEmpty(Tail(parts))

(***************************************************************************)
(* The texts the backend can produce in this model.                        *)
(***************************************************************************)
TxtEmpty   == <<>>
TxtHe      == <<"H", "e">>
TxtLlo     == <<"l", "l", "o">>
TxtBraces  == <<"{", "}">>
TxtBrackets == <<"[", "]">>
TxtNull    == <<"n", "u", "l", "l">>
TxtUndefined == <<"u", "n", "d", "e", "f", "i", "n", "e", "d">>
TxtBlank   == <<" ", " ">>
TxtHelloWorld == <<"h", "e", "l", "l", "o", " ", "w", "o", "r", "l", "d">>
Txt15      == <<"a", "b", "c", "d", "e", "f", "g", "h", "i", "j", "k", "l", "m", "n", "o">>
Spaces15   == <<" ", " ", " ", " ", " ", " ", " ", " ", " ", " ", " ", " ", " ", " ", " ">>
\* 32 characters: slices of 15, 15 and 2
TxtLong    == Txt15 \o Txt15 \o <<"y", "z">>
\* 19 characters, valid as a whole; its second 15-character slice is "null"
TxtTailNull == Txt15 \o TxtNull
\* 33 characters, valid as a whole; its second 15-character slice is blank
TxtGap     == Txt15 \o Spaces15 \o <<"e", "n", "d">>

(***************************************************************************)
(* JavaScript values that reach isValidTextContent: a string or not.       *)
(***************************************************************************)
Str(t) == [isString |-> TRUE, text |-> t]
NotAString == [isString |-> FALSE, text |-> <<>>]

InvalidSentinels == {TxtBraces, TxtBrackets, TxtNull, TxtUndefined}

\* variant of isValidTextContent that does not trim the text
IsValidTextContentUntrimmed(data) ==
    /\ data.isString
    /\ Len(data.text) # 0
    /\ data.text \notin InvalidSentinels

\* ApiService.isValidTextContent
IsValidTextContent(data) ==
    /\ data.isString
    /\ Len(data.text) # 0
    /\ Trim(data.text) # <<>>
    /\ Trim(data.text) \notin InvalidSentinels

(***************************************************************************)
(* Raw items of replicateClient.stream(): a string, an object (with or     *)
(* without the fields event and data) or anything else.                    *)
(***************************************************************************)
RawString(t) ==
    [kind |-> "string", hasEvent |-> FALSE, event |-> "", hasData |-> FALSE, data |-> Str(t)]
RawObject(hasE, e, hasD, d) ==
    [kind |-> "object", hasEvent |-> hasE, event |-> e, hasData |-> hasD, data |-> d]
RawOther ==
    [kind |-> "other", hasEvent |-> FALSE, event |-> "", hasData |-> FALSE, data |-> NotAString]

RawItems ==
    { RawString(TxtHe), RawString(TxtLlo), RawString(TxtEmpty), RawString(TxtBraces),
      RawObject(TRUE, "output", TRUE, Str(TxtHe)),
      RawObject(TRUE, "done", TRUE, NotAString),
      RawObject(FALSE, "", TRUE, Str(TxtLlo)),
      RawObject(TRUE, "error", TRUE, Str(TxtHe)),
      RawOther }

\* the normalized events of streamModelResponse
OutputEvent(t) == [event |-> "output", data |-> t]
DoneEvent == [event |-> "done", data |-> <<>>]
NoEvent == [event |-> "none", data |-> <<>>]

\* variant of the loop body that skips the done and completed events
NormalizeRawIgnoringDone(item) ==
    IF item.kind = "string" /\ IsValidTextContent(item.data)
    THEN OutputEvent(item.data.text)
    ELSE IF item.kind = "object"
    THEN IF item.hasEvent /\ item.hasData
         THEN IF item.event = "output" /\ IsValidTextContent(item.data)
              THEN OutputEvent(item.data.text)
              ELSE NoEvent
         ELSE IF item.hasData /\ IsValidTextContent(item.data)
              THEN OutputEvent(item.data.text)
              ELSE NoEvent
    ELSE NoEvent

\* variant of the loop body that takes `done` from any object with an event
\* field and yields the data of every event of an {event, data} object
NormalizeRawByEventOnly(item) ==
    IF item.kind = "string" /\ IsValidTextContent(item.data)
    THEN OutputEvent(item.data.text)
    ELSE IF item.kind = "object"
    THEN IF item.hasEvent /\ item.event \in {"done", "completed"}
         THEN DoneEvent
         ELSE IF item.hasData /\ IsValidTextContent(item.data)
              THEN OutputEvent(item.data.text)
              ELSE NoEvent
    ELSE NoEvent

\* body of the for-await loop of streamModelResponse: what one raw item yields
NormalizeRaw(item) ==
    IF item.kind = "string" /\ IsValidTextContent(item.data)
    THEN OutputEvent(item.data.text)
    ELSE IF item.kind = "object"
    THEN IF item.hasEvent /\ item.hasData
         THEN IF item.event = "output" /\ IsValidTextContent(item.data)
              THEN OutputEvent(item.data.text)
              ELSE IF item.event \in {"done", "completed"}
                   THEN DoneEvent
                   ELSE NoEvent
         ELSE IF item.hasData /\ IsValidTextContent(item.data)
              THEN OutputEvent(item.data.text)
              ELSE NoEvent
    ELSE NoEvent

(***************************************************************************)
(* Results of replicateClient.run(): an array of string fragments, one     *)
(* string, or null.                                                        *)
(***************************************************************************)
PredArray(parts) == [kind |-> "array", parts |-> parts]
PredString(t) == [kind |-> "string", parts |-> <<t>>]
PredNull == [kind |-> "null", parts |-> <<>>]

Predictions ==
    { PredArray(<<TxtHe, TxtLlo>>), PredArray(<<>>),
      PredString(TxtHelloWorld), PredString(TxtLong), PredString(TxtTailNull),
      PredString(TxtGap), PredString(TxtEmpty), PredString(TxtBraces),
      PredNull }

\* JavaScript truthiness of a run() result: `if (prediction)`
Truthy(pred) ==
    CASE pred.kind = "array" -> TRUE
      [] pred.kind = "string" -> pred.parts[1] # <<>>
      [] OTHER -> FALSE

\* Array.prototype.join(" "): a separator between the fragments
RECURSIVE JoinSpace(_)
JoinSpace(parts) ==
    IF parts = <<>> THEN <<>>
    ELSE IF Len(parts) = 1 THEN Head(parts)
    ELSE Head(parts) \o <<" ">> \o JoinSpace(Tail(parts))

\* variant of PredictionText that joins the fragments with a space
PredictionTextSpaceJoined(pred) ==
    CASE pred.kind = "array" -> JoinSpace(pred.parts)
      [] pred.kind = "string" -> pred.parts[1]
      [] OTHER -> TxtNull

\* Array.isArray(p) ? p.join("") : String(p)
PredictionText(pred) ==
    CASE pred.kind = "array" -> JoinEmpty(pred.parts)
      [] pred.kind = "string" -> pred.parts[1]
      [] OTHER -> TxtNull

chunkSize == 15

\* the fallback loop `for (i = 0; i < content.length; i += chunkSize)`: the
\* index of the next slice that passes isValidTextContent, or -1 at loop end
RECURSIVE NextChunkIndex(_, _)
NextChunkIndex(content, i) ==
    IF i >= Len(content) THEN -1
    ELSE IF IsValidTextContent(Str(Slice(content, i, i + chunkSize))) THEN i
    ELSE NextChunkIndex(content, i + chunkSize)

(***************************************************************************)
(* Backend errors: response is the status of the attached HTTP response    *)
(* (0: none attached), status the error's own status (0: none), marker     *)
(* says whether the message contains the text the handlers search for to   *)
(* recognise a timeout.                                                    *)
(***************************************************************************)
BackendError(r, s, m) == [response |-> r, status |-> s, marker |-> m]
NoError == BackendError(0, 0, FALSE)

BackendErrors ==
    { BackendError(429, 0, FALSE), BackendError(0, 404, FALSE),
      BackendError(0, 0, FALSE), BackendError(503, 0, TRUE),
      BackendError(502, 400, FALSE), BackendError(400, 0, FALSE),
      BackendError(0, 401, FALSE), BackendError(403, 0, FALSE) }

\* variant of handleReplicateError that tests the error's own status first
HandleReplicateErrorStatusFirst(error) ==
    IF error.status # 0
    THEN error
    ELSE IF error.response # 0
         THEN BackendError(error.response, error.response, error.marker)
         ELSE BackendError(0, 500, error.marker)

\* ApiService.handleReplicateError: the error it throws
HandleReplicateError(error) ==
    IF error.response # 0
    THEN BackendError(error.response, error.response, error.marker)
    ELSE IF error.status # 0
         THEN error
         ELSE BackendError(0, 500, error.marker)

(***************************************************************************)
(* HTTP responses.  status 0 stands for "no response yet".  body is the    *)
(* shape of the JSON body, message the text of its message field as a      *)
(* sequence of the pieces it is built from, headers the response headers   *)
(* beyond Content-Type and the CORS headers.                               *)
(***************************************************************************)
ZeroUsage == [prompt_tokens |-> 0, completion_tokens |-> 0, total_tokens |-> 0]

HttpResponse(st, ct, ty, co, content, fr, us) ==
    [status |-> st, contentType |-> ct, type |-> ty, code |-> co,
     content |-> content, finish_reason |-> fr, usage |-> us,
     body |-> "none", message |-> <<>>, headers |-> {}]

NoResponse == HttpResponse(0, "", "", "", <<>>, "", <<>>)

\* the body {error: {message, type, param: null, code}}
ErrorObjectBody == "{error: {message, type, param: null, code}}"

\* the body {error: "Internal Server Error", message} of the handler of main.ts
ErrorStringBody == "{error, message}"

\* createErrorResponse(message, status, type, code)
CreateErrorResponse(message, st, ty, co) ==
    [HttpResponse(st, "application/json", ty, co, <<>>, "", <<>>)
        EXCEPT !.body = ErrorObjectBody, !.message = message]

\* createAuthErrorResponse(message, code)
CreateAuthErrorResponse(message, co) ==
    [HttpResponse(401, "application/json", "invalid_request_error", co, <<>>, "", <<>>)
        EXCEPT !.body = ErrorObjectBody, !.message = message,
               !.headers = {"WWW-Authenticate"}]

\* createTimeoutErrorResponse(error.message)
CreateTimeoutErrorResponse ==
    [HttpResponse(408, "application/json", "timeout_error", "request_timeout", <<>>, "", <<>>)
        EXCEPT !.body = ErrorObjectBody, !.message = <<"(message of the timeout error)">>]

\* createReplicateErrorResponse: status and the type/code chosen by it
ReplicateErrorStatus(error) ==
    IF error.status # 0 THEN error.status
    ELSE IF error.response # 0 THEN error.response ELSE 500

\* variant of createReplicateErrorResponse that reports a refused permission
\* as a failed authentication
CreateReplicateErrorResponseAuthOnly(error) ==
    LET st == ReplicateErrorStatus(error) IN
    LET msg == <<"(message of the backend error)">> IN
    CASE st = 400 -> CreateErrorResponse(msg, st, "invalid_request_error", "invalid_request")
      [] st \in {401, 403} ->
            CreateErrorResponse(msg, st, "authentication_error", "invalid_api_key")
      [] st = 404 -> CreateErrorResponse(msg, st, "invalid_request_error", "model_not_found")
      [] st = 429 -> CreateErrorResponse(msg, st, "rate_limit_error", "rate_limit_exceeded")
      [] OTHER -> CreateErrorResponse(msg, st, "api_error", "replicate_error")

CreateReplicateErrorResponse(error) ==
    LET st == ReplicateErrorStatus(error) IN
    LET msg == <<"(message of the backend error)">> IN
    CASE st = 400 -> CreateErrorResponse(msg, st, "invalid_request_error", "invalid_request")
      [] st = 401 -> CreateErrorResponse(msg, st, "authentication_error", "invalid_api_key")
      [] st = 403 -> CreateErrorResponse(msg, st, "permission_error", "insufficient_quota")
      [] st = 404 -> CreateErrorResponse(msg, st, "invalid_request_error", "model_not_found")
      [] st = 429 -> CreateErrorResponse(msg, st, "rate_limit_error", "rate_limit_exceeded")
      [] OTHER -> CreateErrorResponse(msg, st, "api_error", "replicate_error")

\* the 200 JSON completion built by handleNonStreamResponse
CompletionResponse(content) ==
    [HttpResponse(200, "application/json", "chat.completion", "", content, "stop",
                  <<ZeroUsage>>)
        EXCEPT !.body = "chat.completion"]

\* the 200 text/event-stream response returned by handleStreamResponse
EventStreamResponse ==
    [HttpResponse(200, "text/event-stream", "", "", <<>>, "", <<>>)
        EXCEPT !.body = "event stream"]

\* the catch block of handleNonStreamResponse
NonStreamCatch(error, isTimeout) ==
    IF isTimeout \/ error.marker
    THEN CreateTimeoutErrorResponse
    ELSE CreateReplicateErrorResponse(error)

(***************************************************************************)
(* SSE frames.  An absent delta field is "" (role) or <<>> (content); an   *)
(* absent usage object is <<>>.                                            *)
(***************************************************************************)
\* createSSEChunk(id, model, content, role, finish_reason, usage?); null
\* arguments are <<>> / "" and usage says whether the argument was passed
CreateSSEChunk(content, role, finish_reason, usage) ==
    [type |-> "chunk",
     role |-> role,
     content |-> content,
     finish_reason |-> finish_reason,
     usage |-> IF usage /\ finish_reason = "stop" THEN <<ZeroUsage>> ELSE <<>>,
     code |-> ""]

\* the literal line `data: [DONE]`
DoneFrame ==
    [type |-> "done", role |-> "", content |-> <<>>, finish_reason |-> "",
     usage |-> <<>>, code |-> ""]

\* the in-band error frame of the catch block of handleStreamResponse
ErrorFrame(error) ==
    [type |-> "error", role |-> "", content |-> <<>>, finish_reason |-> "",
     usage |-> <<>>, code |-> IF error.marker THEN "stream_timeout" ELSE "stream_error"]

\* frames enqueued by the loop body of handleStreamResponse for one event
RoleFrame == CreateSSEChunk(<<>>, "assistant", "", FALSE)
ContentFrame(t) == CreateSSEChunk(t, "", "", FALSE)
FinishFrame == CreateSSEChunk(<<>>, "", "stop", FALSE)

\* variant of EncodeEvent that never clears isFirstEvent: a role chunk
\* precedes every event
EncodeEventRoleEveryTime(ev, first) ==
    <<RoleFrame>>
    \o (IF ev.event = "output" THEN <<ContentFrame(ev.data)>>
        ELSE IF ev.event = "done" THEN <<FinishFrame, DoneFrame>>
        ELSE <<>>)

EncodeEvent(ev, first) ==
    (IF first THEN <<RoleFrame>> ELSE <<>>)
    \o (IF ev.event = "output" THEN <<ContentFrame(ev.data)>>
        ELSE IF ev.event = "done" THEN <<FinishFrame, DoneFrame>>
        ELSE <<>>)

(***************************************************************************)
(* Configuration (config.ts) and the checks of the request's credential    *)
(* and model name.                                                         *)
(***************************************************************************)
\* Object.keys(MODEL_MAPPING), in insertion order
ModelKeys ==
    << "claude-sonnet-4-20250514", "claude-3-7-sonnet-20250219",
       "claude-3-5-sonnet-20241022", "anthropic/claude-4-sonnet",
       "anthropic/claude-3.7-sonnet", "anthropic/claude-3.5-sonnet",
       "anthropic/claude-3.5-haiku" >>

MODEL_MAPPING ==
    [m \in {ModelKeys[i] : i \in DOMAIN ModelKeys} |->
        CASE m = "claude-sonnet-4-20250514" -> "anthropic/claude-4-sonnet"
          [] m = "claude-3-7-sonnet-20250219" -> "anthropic/claude-3.7-sonnet"
          [] m = "claude-3-5-sonnet-20241022" -> "anthropic/claude-3.5-sonnet"
          [] OTHER -> m]

PROXY_MODEL_NAME == "claude-3-7-sonnet-20250219"

DEFAULT_MODEL_ID == "claude-3-7-sonnet-20250219"

MAX_TOKENS_CONFIG == [MINIMUM |-> 1024, MAXIMUM |-> 64000, DEFAULT |-> 16384]

ERROR_CODES ==
    [MISSING_AUTH_HEADER |-> "missing_or_invalid_header",
     INVALID_AUTH_KEY |-> "invalid_auth_key",
     INVALID_JSON |-> "invalid_json",
     INVALID_MESSAGES |-> "invalid_messages",
     API_ERROR |-> "api_error",
     INTERNAL_ERROR |-> "internal_error"]

\* names every object literal inherits from Object.prototype
ObjectPrototypeKeys ==
    {"constructor", "toString", "toLocaleString", "valueOf", "hasOwnProperty",
     "isPrototypeOf", "propertyIsEnumerable", "__proto__"}

\* the value read for an inherited name: a function or an object, truthy
InheritedValue == "(inherited from Object.prototype)"

\* the property read MODEL_MAPPING[name] on the object literal; "" stands
\* for undefined
MappingLookup(name) ==
    IF name \in DOMAIN MODEL_MAPPING THEN MODEL_MAPPING[name]
    ELSE IF name \in ObjectPrototypeKeys THEN InheritedValue
    ELSE ""

\* getActualModelId
GetActualModelId(m) ==
    IF MappingLookup(m) # "" THEN MappingLookup(m) ELSE MODEL_MAPPING[DEFAULT_MODEL_ID]

\* the JSON values of the field max_tokens: a number, a string that is not
\* the text of a number (its numeric value is NaN), or no value
Num(n) == [type |-> "number", n |-> n]
NonNumericString == [type |-> "string", n |-> 0]
Undefined == [type |-> "undefined", n |-> 0]

\* JavaScript `!v`, `v < k` and `v > k` on these values: NaN compares false
IsFalsy(v) == v.type = "undefined" \/ (v.type = "number" /\ v.n = 0)
IsLess(v, k) == v.type = "number" /\ v.n < k
IsGreater(v, k) == v.type = "number" /\ v.n > k

\* validateMaxTokens
ValidateMaxTokens(maxTokens) ==
    IF IsFalsy(maxTokens) \/ IsLess(maxTokens, MAX_TOKENS_CONFIG.MINIMUM)
    THEN Num(MAX_TOKENS_CONFIG.DEFAULT)
    ELSE IF IsGreater(maxTokens, MAX_TOKENS_CONFIG.MAXIMUM)
         THEN Num(MAX_TOKENS_CONFIG.MAXIMUM)
         ELSE maxTokens

\* String.prototype.toLowerCase on the letters of the alphabet
UpperCaseLetters ==
    << "A", "B", "C", "D", "E", "F", "G", "H", "I", "J", "K", "L", "M",
       "N", "O", "P", "Q", "R", "S", "T", "U", "V", "W", "X", "Y", "Z" >>
LowerCaseLetters ==
    << "a", "b", "c", "d", "e", "f", "g", "h", "i", "j", "k", "l", "m",
       "n", "o", "p", "q", "r", "s", "t", "u", "v", "w", "x", "y", "z" >>

ToLowerCase(s) ==
    [i \in 1..Len(s) |->
        IF \E k \in 1..26 : UpperCaseLetters[k] = s[i]
        THEN LowerCaseLetters[CHOOSE k \in 1..26 : UpperCaseLetters[k] = s[i]]
        ELSE s[i]]

\* String.prototype.startsWith
StartsWith(s, prefix) ==
    Len(s) >= Len(prefix) /\ SubSeq(s, 1, Len(prefix)) = prefix

\* String.prototype.substring(n)
Substring(s, n) == SubSeq(s, n + 1, Len(s))

\* the value of req.headers.get("Authorization"): null or a string
Header(t) == [isNull |-> FALSE, text |-> t]
NoHeader == [isNull |-> TRUE, text |-> <<>>]

TxtBearer == <<"B", "e", "a", "r", "e", "r">>
TxtKey == <<"r", "8", "_", "a", "b", "c", "d", "e", "f", "g">>
TxtShortKey == <<"r", "8", "_", "a", "b", "c", "d", "e", "f">>

Headers ==
    { NoHeader,
      Header(<<>>),
      Header(<<"B", "a", "s", "i", "c", " ">> \o TxtKey),
      Header(TxtBearer \o TxtKey),
      Header(TxtBearer \o <<" ">> \o TxtShortKey),
      Header(TxtBearer \o <<" ">> \o TxtKey),
      Header(ToLowerCase(TxtBearer) \o <<" ">> \o TxtKey),
      Header(<<"B", "E", "A", "R", "E", "R", " ">> \o TxtKey) }

AuthResult(ok, key, r) == [isValid |-> ok, apiKey |-> key, response |-> r]

\* variant of ValidateAndExtractApiKey that accepts a credential of any
\* length
ValidateAndExtractApiKeyAnyLength(authHeader) ==
    IF authHeader.isNull \/ authHeader.text = <<>>
       \/ ~StartsWith(ToLowerCase(authHeader.text), <<"b", "e", "a", "r", "e", "r", " ">>)
    THEN AuthResult(FALSE, <<>>,
            CreateAuthErrorResponse(
                <<"Unauthorized: Missing or invalid Authorization header. Use 'Bearer <YOUR_REPLICATE_API_KEY>' format.">>,
                ERROR_CODES.MISSING_AUTH_HEADER))
    ELSE AuthResult(TRUE, Substring(authHeader.text, 7), NoResponse)

\* validateAndExtractApiKey
ValidateAndExtractApiKey(authHeader) ==
    IF authHeader.isNull \/ authHeader.text = <<>>
       \/ ~StartsWith(ToLowerCase(authHeader.text), <<"b", "e", "a", "r", "e", "r", " ">>)
    THEN AuthResult(FALSE, <<>>,
            CreateAuthErrorResponse(
                <<"Unauthorized: Missing or invalid Authorization header. Use 'Bearer <YOUR_REPLICATE_API_KEY>' format.">>,
                ERROR_CODES.MISSING_AUTH_HEADER))
    ELSE LET apiKey == Substring(authHeader.text, 7) IN
         IF apiKey = <<>> \/ Len(apiKey) < 10
         THEN AuthResult(FALSE, <<>>,
                 CreateAuthErrorResponse(
                     <<"Unauthorized: Invalid Replicate API Key provided.">>,
                     ERROR_CODES.INVALID_AUTH_KEY))
         ELSE AuthResult(TRUE, apiKey, NoResponse)

ModelResult(ok, name, r) == [isValid |-> ok, modelName |-> name, response |-> r]

\* validateRequestModel; an absent model is ""
ValidateRequestModel(requestModel) ==
    LET modelName == IF requestModel # "" THEN requestModel ELSE PROXY_MODEL_NAME IN
    IF MappingLookup(modelName) = ""
    THEN ModelResult(FALSE, modelName,
            CreateErrorResponse(
                <<"Model '", modelName, "' is not supported. Available models: ">>
                    \o ModelKeys,
                400, "invalid_request_error", "model_not_found"))
    ELSE ModelResult(TRUE, modelName, NoResponse)

\* handleNotFoundRequest
HandleNotFoundRequest ==
    CreateErrorResponse(<<"Not Found or Method Not Allowed">>, 404,
                        "invalid_request_error", ERROR_CODES.INVALID_JSON)

(***************************************************************************)
(* Chat messages (message-processor.ts).  A content is a string, an array  *)
(* of parts or absent; a part is a text part (text <<>>: no or empty       *)
(* text), an image part (url "": no usable image_url.url), a part of       *)
(* another type, or null.                                                  *)
(***************************************************************************)
TextPart(t) == [type |-> "text", text |-> t, url |-> ""]
ImagePart(u) == [type |-> "image_url", text |-> <<>>, url |-> u]
OtherPart == [type |-> "input_audio", text |-> <<>>, url |-> ""]
NullPart == [type |-> "null", text |-> <<>>, url |-> ""]

StringContent(t) == [kind |-> "string", text |-> t, parts |-> <<>>]
ArrayContent(ps) == [kind |-> "array", text |-> <<>>, parts |-> ps]
NoContent == [kind |-> "absent", text |-> <<>>, parts |-> <<>>]

\* a message object (role "": no role) or the value null
Message(r, c) == [isNull |-> FALSE, role |-> r, content |-> c]
NullMessage == [isNull |-> TRUE, role |-> "", content |-> NoContent]

\* the characters of a role, as the template `${message.role}` writes them
RoleText(r) ==
    CASE r = "user" -> <<"u", "s", "e", "r">>
      [] r = "assistant" -> <<"a", "s", "s", "i", "s", "t", "a", "n", "t">>
      [] r = "system" -> <<"s", "y", "s", "t", "e", "m">>
      [] OTHER -> <<>>

IsSystem(m) == m.role = "system"
IsNotSystem(m) == m.role # "system"
IsTextPart(p) == p.type = "text"

\* reading a property of the element null raises a TypeError
HasNullPart(m) ==
    m.content.kind = "array"
    /\ \E i \in 1..Len(m.content.parts) : m.content.parts[i].type = "null"

HasNullMessage(messages) == \E i \in 1..Len(messages) : messages[i].isNull

\* extractSystemPrompt: what one system message adds to systemPrompt
RECURSIVE SystemPartsText(_)
SystemPartsText(parts) ==
    IF parts = <<>> THEN <<>>
    ELSE (IF Head(parts).type = "text" /\ Head(parts).text # <<>>
          THEN Head(parts).text \o <<"\n">> ELSE <<>>)
         \o SystemPartsText(Tail(parts))

SystemMessageText(m) ==
    IF m.content.kind = "string" THEN m.content.text \o <<"\n">>
    ELSE IF m.content.kind = "array" THEN SystemPartsText(m.content.parts)
    ELSE <<>>

RECURSIVE SystemMessagesText(_)
SystemMessagesText(messages) ==
    IF messages = <<>> THEN <<>>
    ELSE SystemMessageText(Head(messages)) \o SystemMessagesText(Tail(messages))

\* variant of ExtractSystemPrompt that leaves the system messages in the list
ExtractSystemPromptKeepingMessages(messages) ==
    IF HasNullMessage(messages)
       \/ \E i \in 1..Len(messages) : IsSystem(messages[i]) /\ HasNullPart(messages[i])
    THEN [raised |-> TRUE, systemPrompt |-> <<>>, messages |-> messages]
    ELSE [raised |-> FALSE,
          systemPrompt |-> Trim(SystemMessagesText(SelectSeq(messages, IsSystem))),
          messages |-> messages]

\* variant of ExtractSystemPrompt that trims the end of the prompt only
ExtractSystemPromptTrimEnd(messages) ==
    IF HasNullMessage(messages)
       \/ \E i \in 1..Len(messages) : IsSystem(messages[i]) /\ HasNullPart(messages[i])
    THEN [raised |-> TRUE, systemPrompt |-> <<>>, messages |-> messages]
    ELSE [raised |-> FALSE,
          systemPrompt |-> TrimEnd(SystemMessagesText(SelectSeq(messages, IsSystem))),
          messages |-> SelectSeq(messages, IsNotSystem)]

\* extractSystemPrompt: the prompt returned and the list it leaves behind;
\* raised: it threw (nothing was removed from the list by then)
ExtractSystemPrompt(messages) ==
    IF HasNullMessage(messages)
       \/ \E i \in 1..Len(messages) : IsSystem(messages[i]) /\ HasNullPart(messages[i])
    THEN [raised |-> TRUE, systemPrompt |-> <<>>, messages |-> messages]
    ELSE [raised |-> FALSE,
          systemPrompt |-> Trim(SystemMessagesText(SelectSeq(messages, IsSystem))),
          messages |-> SelectSeq(messages, IsNotSystem)]

\* the urls extractImageUrls pushes for the parts of one content
RECURSIVE UrlsOfParts(_)
UrlsOfParts(parts) ==
    IF parts = <<>> THEN <<>>
    ELSE (IF Head(parts).type = "image_url" /\ Head(parts).url # ""
          THEN <<Head(parts).url>> ELSE <<>>)
         \o UrlsOfParts(Tail(parts))

\* the parts in front of the first null part
RECURSIVE PartsBeforeNull(_)
PartsBeforeNull(parts) ==
    IF parts = <<>> \/ Head(parts).type = "null" THEN <<>>
    ELSE <<Head(parts)>> \o PartsBeforeNull(Tail(parts))

\* the messages extractImageUrls rewrites
IsExtractable(m) == m.role = "user" /\ m.content.kind = "array"

\* extractImageUrls(messages, imageUrls): the list and the urls it leaves
RECURSIVE ExtractImageUrls(_, _)
ExtractImageUrls(messages, imageUrls) ==
    IF messages = <<>>
    THEN [raised |-> FALSE, messages |-> <<>>, imageUrls |-> imageUrls]
    ELSE LET m == Head(messages) IN
         IF m.isNull
         THEN [raised |-> TRUE, messages |-> messages, imageUrls |-> imageUrls]
         ELSE IF ~IsExtractable(m)
         THEN LET rest == ExtractImageUrls(Tail(messages), imageUrls) IN
              [rest EXCEPT !.messages = <<m>> \o @]
         ELSE IF HasNullPart(m)
         THEN [raised |-> TRUE, messages |-> messages,
               imageUrls |-> imageUrls \o UrlsOfParts(PartsBeforeNull(m.content.parts))]
         ELSE LET rest == ExtractImageUrls(Tail(messages),
                                           imageUrls \o UrlsOfParts(m.content.parts)) IN
              [rest EXCEPT !.messages =
                  <<[m EXCEPT !.content =
                        ArrayContent(SelectSeq(m.content.parts, IsTextPart))]>> \o @]

\* variant of HasLine that skips a message whose array content is empty
HasLineUnlessEmpty(m) ==
    /\ ~m.isNull
    /\ m.role # ""
    /\ \/ m.content.kind = "string" /\ m.content.text # <<>>
       \/ m.content.kind = "array" /\ m.content.parts # <<>>

\* the condition of formatMessagesToConversation under which a message
\* gets a line: a role, and a content that is truthy or an array
HasLine(m) ==
    /\ ~m.isNull
    /\ m.role # ""
    /\ \/ m.content.kind = "string" /\ m.content.text # <<>>
       \/ m.content.kind = "array"

\* .filter(item => item.type === "text").map(item => item.text || "")
TextsOfParts(parts) ==
    [i \in 1..Len(SelectSeq(parts, IsTextPart)) |-> SelectSeq(parts, IsTextPart)[i].text]

\* variant of MessageLine that joins the texts without a separator
MessageLineJoinedEmpty(m) ==
    RoleText(m.role) \o <<":", " ">>
    \o (IF m.content.kind = "array" THEN JoinEmpty(TextsOfParts(m.content.parts))
        ELSE m.content.text)
    \o <<"\n">>

\* the line of one message
MessageLine(m) ==
    RoleText(m.role) \o <<":", " ">>
    \o (IF m.content.kind = "array" THEN JoinSpace(TextsOfParts(m.content.parts))
        ELSE m.content.text)
    \o <<"\n">>

RECURSIVE FormattedContent(_)
FormattedContent(messages) ==
    IF messages = <<>> THEN <<>>
    ELSE (IF HasLine(Head(messages)) THEN MessageLine(Head(messages)) ELSE <<>>)
         \o FormattedContent(Tail(messages))

\* formatMessagesToConversation
FormatMessagesToConversation(messages) ==
    IF HasNullMessage(messages)
       \/ \E i \in 1..Len(messages) : HasLine(messages[i]) /\ HasNullPart(messages[i])
    THEN [raised |-> TRUE, text |-> <<>>]
    ELSE [raised |-> FALSE, text |-> FormattedContent(messages)]

\* a value of type string | undefined
DefinedText(t) == [defined |-> TRUE, text |-> t]
UndefinedText == [defined |-> FALSE, text |-> <<>>]

\* the value of requestBody.messages: an array or something else
MessageList(ms) == [isList |-> TRUE, items |-> ms]
NotAList == [isList |-> FALSE, items |-> <<>>]

ProcessResult(uc, sp, urls) == [userContent |-> uc, systemPrompt |-> sp, imageUrls |-> urls]

\* variant of processMessages whose catch block returns a text
ProcessMessagesErrorText(messages) ==
    IF ~messages.isList \/ Len(messages.items) = 0
    THEN ProcessResult(UndefinedText, <<>>, <<>>)
    ELSE LET sys == ExtractSystemPrompt(messages.items) IN
         IF sys.raised THEN ProcessResult(DefinedText(<<"e", "r", "r">>), <<>>, <<>>)
         ELSE LET img == ExtractImageUrls(sys.messages, <<>>) IN
              IF img.raised
              THEN ProcessResult(DefinedText(<<"e", "r", "r">>), sys.systemPrompt,
                                 img.imageUrls)
              ELSE LET fmt == FormatMessagesToConversation(img.messages) IN
                   IF fmt.raised
                   THEN ProcessResult(DefinedText(<<"e", "r", "r">>), sys.systemPrompt,
                                      img.imageUrls)
                   ELSE ProcessResult(DefinedText(fmt.text), sys.systemPrompt,
                                      img.imageUrls)

\* processMessages
ProcessMessages(messages) ==
    IF ~messages.isList \/ Len(messages.items) = 0
    THEN ProcessResult(UndefinedText, <<>>, <<>>)
    ELSE LET sys == ExtractSystemPrompt(messages.items) IN
         IF sys.raised THEN ProcessResult(UndefinedText, <<>>, <<>>)
         ELSE LET img == ExtractImageUrls(sys.messages, <<>>) IN
              IF img.raised
              THEN ProcessResult(UndefinedText, sys.systemPrompt, img.imageUrls)
              ELSE LET fmt == FormatMessagesToConversation(img.messages) IN
                   IF fmt.raised
                   THEN ProcessResult(UndefinedText, sys.systemPrompt, img.imageUrls)
                   ELSE ProcessResult(DefinedText(fmt.text), sys.systemPrompt,
                                      img.imageUrls)

\* the backend input; hasImage: the field image is present
ModelInput(prompt, maxTokens, systemPrompt, hasImage, image) ==
    [prompt |-> prompt, max_tokens |-> maxTokens, system_prompt |-> systemPrompt,
     max_image_resolution |-> "0.5", hasImage |-> hasImage, image |-> image]

NoInput == ModelInput(<<>>, Undefined, <<>>, FALSE, "")

\* variant of BuildModelInput that takes the first image
BuildModelInputFirstImage(userContent, systemPrompt, imageUrls, maxTokens) ==
    ModelInput(userContent, ValidateMaxTokens(maxTokens), systemPrompt,
               Len(imageUrls) > 0,
               IF Len(imageUrls) > 0 THEN imageUrls[1] ELSE "")

\* buildModelInput
BuildModelInput(userContent, systemPrompt, imageUrls, maxTokens) ==
    ModelInput(userContent, ValidateMaxTokens(maxTokens), systemPrompt,
               Len(imageUrls) > 0,
               IF Len(imageUrls) > 0 THEN imageUrls[Len(imageUrls)] ELSE "")

(***************************************************************************)
(* The state of one request.                                               *)
(***************************************************************************)
VARIABLES
    route,          \* the request's path and method: "chat" or "other"
    authHeader,     \* the request's Authorization header
    requestBody,    \* the request's body: json, messages, max_tokens
    isStream,       \* requestBody.stream === true
    requestModel,   \* requestBody.model ("": the body names no model)
    fault,          \* the unexpected exception a library call raises, if any
    sessions,       \* the requests in flight together (used by ConcurrentSpec only)
    npc,            \* position of processMessages
    work,           \* messagesClone, the working list of processMessages
    callerBody,     \* the caller's requestBody.messages as the object is now,
                    \* and whether messagesClone is that same object
    systemPrompt,   \* systemPrompt of processMessages
    imageUrls,      \* imageUrls of processMessages
    userContent,    \* userContent of processMessages
    input,          \* the backend input built from the request
    hpc,            \* position of the handler chain: "start", "parsing",
                    \* "dispatched", "rejected" (answered by a check),
                    \* "crashed" (an unexpected exception was caught)
    timerQueue,     \* the armed setTimeout callbacks of withTimeout, in creation order
    race,           \* state of each withTimeout's Promise.race
    resp,           \* the HTTP response the client received (NoResponse: none yet)
    respCount,      \* number of responses handed to the client
    calls,          \* the backend calls made so far, in order
    runState,       \* replicateClient.run: "idle", "pending", "returned", "failed"
    runResult,      \* the prediction run returned (when runState = "returned")
    runLate,        \* run settled after the request's timeout had expired
    runError,       \* the error run raised (when runState = "failed")
    streamState,    \* replicateClient.stream: "idle", "open", "ended", "failed"
    rawCount,       \* number of raw items the backend stream delivered
    raws,           \* the raw items delivered, in order (kept by StreamSpec only)
    genPc,          \* position of the generator streamModelResponse
    genError,       \* the error the generator threw (when genPc = "thrown")
    fbContent,      \* fallback: the text being re-chunked
    fbIdx,          \* fallback: loop index i of the slice yielded last
    fbStart,        \* number of events emitted before the fallback started
    want,           \* the consumer has called next() and awaits the result
    held,           \* the event yielded and not yet handled by the encoder
    events,         \* every event streamModelResponse yielded, in order
    encPc,          \* the start() routine: "idle", "iterating", "delay", "closed", "errored"
    isFirstEvent,   \* the flag of handleStreamResponse
    frames          \* the frames enqueued on the response stream, in order

vars == <<route, authHeader, requestBody, isStream, requestModel, fault, sessions,
          npc, work, callerBody, systemPrompt, imageUrls, userContent, input,
          hpc, timerQueue, race, resp, respCount,
          calls, runState, runResult, runLate, runError, streamState, rawCount, raws,
          genPc, genError, fbContent, fbIdx, fbStart, want, held, events, encPc,
          isFirstEvent, frames>>

handlerVars == <<hpc, timerQueue, race, resp, respCount>>
clientVars == <<route, authHeader, requestBody, isStream, requestModel, fault, sessions>>
processVars == <<npc, work, callerBody, systemPrompt, imageUrls, userContent>>
requestVars == <<clientVars, processVars, input>>
generatorVars == <<genPc, genError, fbContent, fbIdx, fbStart, want, held, events>>
encoderVars == <<encPc, isFirstEvent, frames>>
backendVars == <<calls, runState, runResult, runLate, runError, streamState, rawCount, raws>>

Races == {"chat", "main", "call"}

(***************************************************************************)
(* The requests of the model.                                              *)
(***************************************************************************)
TxtHi == <<"H", "i">>
TxtOk == <<"o", "k">>
\* a text with a leading and a trailing blank
TxtPadded == <<" ", "B", "e", " ">>

\* the parsed body; json: "object", "null" (the body is the JSON value
\* null) or "malformed" (req.json() rejects)
Body(json, messages, maxTokens) ==
    [json |-> json, messages |-> messages, max_tokens |-> maxTokens]

\* Scenario A: one user message
BodyHello == Body("object", MessageList(<<Message("user", StringContent(TxtHi))>>), Undefined)

\* a system message and a user message with a text and an image
BodyVision ==
    Body("object",
         MessageList(<<Message("system", StringContent(TxtPadded)),
                       Message("user", ArrayContent(<<TextPart(TxtHi), ImagePart("url-1")>>))>>),
         Num(2048))

\* values of max_tokens around the limits of MAX_TOKENS_CONFIG
MaxTokensValues ==
    { Undefined, NonNumericString,
      Num(0), Num(-1), Num(1), Num(1023), Num(1024), Num(2048), Num(16384),
      Num(64000), Num(64001) }

Bodies ==
    { BodyHello, BodyVision,
      Body("malformed", NotAList, Undefined),
      Body("null", NotAList, Undefined),
      Body("object", NotAList, Undefined),
      Body("object", MessageList(<<>>), Undefined),
      Body("object", MessageList(<<Message("user", StringContent(TxtHi)), NullMessage>>), Undefined),
      Body("object", MessageList(<<Message("user", ArrayContent(<<TextPart(TxtHi), NullPart>>))>>), Undefined),
      Body("object", MessageList(<<Message("system", StringContent(TxtOk))>>), Undefined),
      Body("object", MessageList(<<Message("user", ArrayContent(<<ImagePart("url-1")>>))>>), Undefined) }

\* an exception that is neither a backend error nor a timeout, raised by a
\* library call (logging, JSON.stringify, crypto.randomUUID, new Response)
\* at point: "handler" (in the try block of the handler of main.ts),
\* "internal" (in the try block of handleChatCompletionRequestInternal) or
\* "nonstream" (in the try block of handleNonStreamResponse, after the
\* backend call returned); text is its message
Fault(point, text) == [point |-> point, text |-> text]
NoFault == Fault("none", "")

\* messages of unexpected exceptions; none contains the timeout marker
ExceptionTexts == {"exception text 1", "exception text 2"}

Request(rt, hdr, stream, model, body, flt) ==
    [route |-> rt, authHeader |-> hdr, isStream |-> stream, model |-> model,
     body |-> body, fault |-> flt]

ValidHeader == Header(TxtBearer \o <<" ">> \o TxtKey)

Requests ==
    \* requests with every header, sent to the chat route and elsewhere
    { Request(rt, hdr, FALSE, PROXY_MODEL_NAME, BodyHello, NoFault) :
        rt \in {"chat", "other"}, hdr \in Headers }
    \* requests with every body, streaming or not
    \cup { Request("chat", ValidHeader, stream, PROXY_MODEL_NAME, body, NoFault) :
             stream \in BOOLEAN, body \in Bodies }
    \* requests naming no model, a model of the table, and other names
    \cup { Request("chat", ValidHeader, FALSE, model, BodyHello, NoFault) :
             model \in {"", "anthropic/claude-3.5-haiku", "unknown-model"} }
    \cup { Request("chat", ValidHeader, stream, "toString", BodyHello, NoFault) :
             stream \in BOOLEAN }
    \* requests that fail more than one check of the handler
    \cup { Request("chat", hdr, FALSE, model, body, NoFault) :
             hdr \in {NoHeader, ValidHeader},
             model \in {"unknown-model"},
             body \in {Body("malformed", NotAList, Undefined),
                       Body("object", MessageList(<<>>), Undefined)} }
    \cup { Request("chat", NoHeader, FALSE, PROXY_MODEL_NAME,
                   Body("malformed", NotAList, Undefined), NoFault) }
    \* requests with every value of max_tokens
    \cup { Request("chat", ValidHeader, FALSE, PROXY_MODEL_NAME,
                   Body("object", BodyHello.messages, v), NoFault) :
             v \in MaxTokensValues }
    \* requests during which an unexpected exception is raised
    \cup { Request("chat", ValidHeader, FALSE, PROXY_MODEL_NAME, BodyHello, Fault(point, text)) :
             point \in {"handler", "internal", "nonstream"}, text \in ExceptionTexts }

Receives(rq) ==
    /\ route = rq.route
    /\ authHeader = rq.authHeader
    /\ requestBody = rq.body
    /\ isStream = rq.isStream
    /\ requestModel = rq.model
    /\ fault = rq.fault
    /\ sessions = <<>>

\* the state before the handler runs
NothingRan ==
    /\ npc = "idle"
    /\ work = <<>>
    /\ callerBody = [messages |-> requestBody.messages, aliased |-> FALSE]
    /\ systemPrompt = <<>>
    /\ imageUrls = <<>>
    /\ userContent = UndefinedText
    /\ input = NoInput
    /\ hpc = "start"
    /\ timerQueue = <<>>
    /\ race = [r \in Races |-> "unset"]
    /\ resp = NoResponse
    /\ respCount = 0
    /\ calls = <<>>
    /\ runState = "idle"
    /\ runResult = PredNull
    /\ runLate = FALSE
    /\ runError = NoError
    /\ streamState = "idle"
    /\ rawCount = 0
    /\ raws = <<>>
    /\ genPc = "notStarted"
    /\ genError = NoError
    /\ fbContent = <<>>
    /\ fbIdx = 0
    /\ fbStart = 0
    /\ want = FALSE
    /\ held = NoEvent
    /\ events = <<>>
    /\ encPc = "idle"
    /\ isFirstEvent = TRUE
    /\ frames = <<>>

Init ==
    /\ \E rq \in Requests : Receives(rq)
    /\ NothingRan

(***************************************************************************)
(* withTimeout and the handler chain.  A Promise.race settles once: a      *)
(* value or a rejection arriving at a settled race is dropped.             *)
(***************************************************************************)
\* variant of RaceTakes in which a settled race still takes a later outcome
RaceTakesAfterSettling(rc, name) == rc[name] # "unset"

\* withTimeout: the race takes the outcome only while it is pending
RaceTakes(rc, name) == rc[name] = "pending"

\* main.ts handler: the response of routeRequest goes through the "main" race
\* and is returned to the client
ReturnFromRoute(rc, r) ==
    IF RaceTakes(rc, "main")
    THEN [race |-> [rc EXCEPT !["main"] = "resolved"], resp |-> r, sent |-> 1]
    ELSE [race |-> rc, resp |-> resp, sent |-> 0]

\* handleChatCompletionRequest: the response of the internal handler goes
\* through the "chat" race and is returned to routeRequest
ReturnFromInternal(rc, r) ==
    IF RaceTakes(rc, "chat")
    THEN ReturnFromRoute([rc EXCEPT !["chat"] = "resolved"], r)
    ELSE [race |-> rc, resp |-> resp, sent |-> 0]

\* the handler chain's variables after an outcome `out` of the two above
Deliver(out) ==
    /\ race' = out.race
    /\ resp' = out.resp
    /\ respCount' = respCount + out.sent

\* the 600 s of the request have passed while it was being handled: the
\* timer created first has fired
TimeoutExpired ==
    /\ hpc \in {"parsing", "dispatched"}
    /\ \A i \in 1..Len(timerQueue) : timerQueue[i] # "chat"

\* One backend call record
Call(api) ==
    [api |-> api,
     model |-> GetActualModelId(ValidateRequestModel(requestModel).modelName),
     input |-> input]

\* the catch block of the handler of main.ts
HandlerCatch(isTimeout) ==
    IF isTimeout
    THEN CreateTimeoutErrorResponse
    ELSE [HttpResponse(500, "application/json", "", "", <<>>, "", <<>>)
             EXCEPT !.body = ErrorStringBody,
                    !.message = <<"(the fixed text of the handler of main.ts)">>]

\* the catch block of handleChatCompletionRequestInternal for an error
\* without status and response
InternalCatch ==
    CreateErrorResponse(<<"Internal Server Error">>, 500, "internal_error",
                        ERROR_CODES.INTERNAL_ERROR)

\* the last branch of the catch block of handleNonStreamResponse
NonStreamCatchOther(errorMessage) ==
    CreateErrorResponse(<<"Failed to get response from API: ", errorMessage>>, 500,
                        "api_error", ERROR_CODES.API_ERROR)

\* a return of handleChatCompletionRequestInternal that ends the request
\* before anything is sent to the backend
Answer(rc, r, pc) ==
    /\ hpc' = pc
    /\ Deliver(ReturnFromInternal(rc, r))
    /\ UNCHANGED <<backendVars, generatorVars, encoderVars>>

(***************************************************************************)
(* Actions of the handler chain.                                           *)
(***************************************************************************)
\* handler -> routeRequest -> handleChatCompletionRequest ->
\* handleChatCompletionRequestInternal up to `await req.json()`.  The argument
\* of each withTimeout is evaluated before its timer is set, so the "chat"
\* timer is created before the "main" timer.
HandlerStart ==
    /\ hpc = "start"
    /\ IF fault.point = "handler"
       THEN \* logRequestStart raised: the catch of the handler answers
            /\ hpc' = "crashed"
            /\ resp' = HandlerCatch(FALSE)
            /\ respCount' = respCount + 1
            /\ UNCHANGED <<timerQueue, race>>
            /\ UNCHANGED <<backendVars, generatorVars, encoderVars>>
       ELSE IF route # "chat"
       THEN \* routeRequest: handleNotFoundRequest
            /\ hpc' = "rejected"
            /\ timerQueue' = timerQueue \o <<"main">>
            /\ Deliver(ReturnFromRoute([race EXCEPT !["main"] = "pending"],
                                       HandleNotFoundRequest))
            /\ UNCHANGED <<backendVars, generatorVars, encoderVars>>
       ELSE /\ timerQueue' = timerQueue \o <<"chat", "main">>
            /\ IF ~ValidateAndExtractApiKey(authHeader).isValid
               THEN Answer([race EXCEPT !["chat"] = "pending", !["main"] = "pending"],
                           ValidateAndExtractApiKey(authHeader).response, "rejected")
               ELSE /\ hpc' = "parsing"
                    /\ race' = [race EXCEPT !["chat"] = "pending", !["main"] = "pending"]
                    /\ UNCHANGED <<resp, respCount>>
                    /\ UNCHANGED <<backendVars, generatorVars, encoderVars>>
    /\ UNCHANGED requestVars

\* handleNonStreamResponse up to its await: getModelResponse calls run, then
\* withTimeout arms the "call" timer
DispatchNonStream ==
    /\ runState' = "pending"
    /\ calls' = Append(calls, [Call("run") EXCEPT !.input = input'])
    /\ timerQueue' = Append(timerQueue, "call")
    /\ race' = [race EXCEPT !["call"] = "pending"]
    /\ UNCHANGED <<resp, respCount, runResult, runLate, runError, streamState, rawCount, raws>>
    /\ UNCHANGED <<generatorVars, encoderVars>>

\* handleStreamResponse: start() creates the generator and passes it to
\* withTimeout; the generator is no promise, so the race resolves with it at
\* once and the timer is left armed.  The for-await then calls next(), which
\* runs the generator up to its first await: the stream call.  The Response
\* is returned through the handler chain.
DispatchStream ==
    /\ timerQueue' = Append(timerQueue, "call")
    /\ streamState' = "open"
    /\ calls' = Append(calls, [Call("stream") EXCEPT !.input = input'])
    /\ genPc' = "native"
    /\ want' = TRUE
    /\ encPc' = "iterating"
    /\ Deliver(ReturnFromInternal([race EXCEPT !["call"] = "resolved"], EventStreamResponse))
    /\ UNCHANGED <<runState, runResult, runLate, runError, rawCount, raws>>
    /\ UNCHANGED <<genError, fbContent, fbIdx, fbStart, held, events>>
    /\ UNCHANGED <<isFirstEvent, frames>>

\* the body is not JSON, or logRequestMetadata raised on it (the body is
\* null, or an element of its messages is null)
JsonCatch(body) ==
    \/ body.json # "object"
    \/ body.messages.isList /\ HasNullMessage(body.messages.items)

\* variant of the handler that checks the messages before the model name
BodyParsedMessagesFirst ==
    /\ hpc = "parsing"
    /\ IF JsonCatch(requestBody)
       THEN /\ Answer(race, CreateErrorResponse(<<"Invalid JSON in request body">>, 400,
                                                "invalid_request_error",
                                                ERROR_CODES.INVALID_JSON), "rejected")
            /\ UNCHANGED <<timerQueue, processVars, input>>
       ELSE LET pm == ProcessMessages(requestBody.messages) IN
            IF ~pm.userContent.defined \/ pm.userContent.text = <<>>
            THEN /\ userContent' = pm.userContent
                 /\ systemPrompt' = pm.systemPrompt
                 /\ imageUrls' = pm.imageUrls
                 /\ Answer(race,
                           CreateErrorResponse(
                               <<"Request body must contain a non-empty 'messages' array.">>,
                               400, "invalid_request_error",
                               ERROR_CODES.INVALID_MESSAGES), "rejected")
                 /\ UNCHANGED <<npc, work, callerBody, timerQueue, input>>
            ELSE IF ~ValidateRequestModel(requestModel).isValid
            THEN /\ Answer(race, ValidateRequestModel(requestModel).response, "rejected")
                 /\ UNCHANGED <<timerQueue, processVars, input>>
            ELSE /\ userContent' = pm.userContent
                 /\ systemPrompt' = pm.systemPrompt
                 /\ imageUrls' = pm.imageUrls
                 /\ UNCHANGED <<npc, work, callerBody>>
                 /\ input' = BuildModelInput(pm.userContent.text, pm.systemPrompt,
                                             pm.imageUrls, requestBody.max_tokens)
                 /\ IF fault.point = "internal"
                    THEN /\ Answer(race, InternalCatch, "crashed")
                         /\ UNCHANGED timerQueue
                    ELSE /\ hpc' = "dispatched"
                         /\ IF isStream THEN DispatchStream ELSE DispatchNonStream
    /\ UNCHANGED clientVars

\* req.json() settled: the rest of handleChatCompletionRequestInternal
BodyParsed ==
    /\ hpc = "parsing"
    /\ IF JsonCatch(requestBody)
       THEN /\ Answer(race, CreateErrorResponse(<<"Invalid JSON in request body">>, 400,
                                                "invalid_request_error",
                                                ERROR_CODES.INVALID_JSON), "rejected")
            /\ UNCHANGED <<timerQueue, processVars, input>>
       ELSE IF ~ValidateRequestModel(requestModel).isValid
       THEN /\ Answer(race, ValidateRequestModel(requestModel).response, "rejected")
            /\ UNCHANGED <<timerQueue, processVars, input>>
       ELSE LET pm == ProcessMessages(requestBody.messages) IN
            /\ userContent' = pm.userContent
            /\ systemPrompt' = pm.systemPrompt
            /\ imageUrls' = pm.imageUrls
            /\ UNCHANGED <<npc, work, callerBody>>
            /\ IF ~pm.userContent.defined \/ pm.userContent.text = <<>>
               THEN /\ Answer(race,
                              CreateErrorResponse(
                                  <<"Request body must contain a non-empty 'messages' array.">>,
                                  400, "invalid_request_error",
                                  ERROR_CODES.INVALID_MESSAGES), "rejected")
                    /\ UNCHANGED <<timerQueue, input>>
               ELSE /\ input' = BuildModelInput(pm.userContent.text, pm.systemPrompt,
                                                pm.imageUrls, requestBody.max_tokens)
                    /\ IF fault.point = "internal"
                       THEN /\ Answer(race, InternalCatch, "crashed")
                            /\ UNCHANGED timerQueue
                       ELSE /\ hpc' = "dispatched"
                            /\ IF isStream THEN DispatchStream ELSE DispatchNonStream
    /\ UNCHANGED clientVars

\* the catch blocks that answer a rejected race
TimerRejects(name) ==
    CASE name = "main" ->
            \* handler (main.ts): createTimeoutErrorResponse
            [race |-> [race EXCEPT !["main"] = "rejected"],
             resp |-> CreateTimeoutErrorResponse, sent |-> 1]
      [] name = "chat" ->
            \* handleChatCompletionRequest: createTimeoutErrorResponse
            ReturnFromRoute([race EXCEPT !["chat"] = "rejected"],
                            CreateTimeoutErrorResponse)
      [] OTHER ->
            \* handleNonStreamResponse: its catch block
            ReturnFromInternal([race EXCEPT !["call"] = "rejected"],
                               NonStreamCatch(NoError, TRUE))

\* the setTimeout callback of a withTimeout: it rejects its race; timers of
\* equal delay fire in the order they were created
TimerFires ==
    /\ timerQueue # <<>>
    /\ timerQueue' = Tail(timerQueue)
    /\ IF RaceTakes(race, Head(timerQueue))
       THEN Deliver(TimerRejects(Head(timerQueue)))
       ELSE UNCHANGED <<race, resp, respCount>>
    /\ UNCHANGED hpc
    /\ UNCHANGED <<requestVars, backendVars, generatorVars, encoderVars>>

(***************************************************************************)
(* The generator streamModelResponse.  A step of the generator ends at a   *)
(* yield, at its return or at a throw; GenStep records where it stopped    *)
(* and the event it yielded there (NoEvent: none).                         *)
(***************************************************************************)
GenStep(pc, ev, content, idx) == [pc |-> pc, ev |-> ev, content |-> content, idx |-> idx]

\* the chunk loop of the fallback from index i on: the next valid slice is
\* yielded; after the loop the final `done` is yielded
FallbackLoop(content, i) ==
    LET j == NextChunkIndex(content, i) IN
    IF j >= 0
    THEN GenStep("fallbackChunks", OutputEvent(Slice(content, j, j + chunkSize)), content, j)
    ELSE GenStep("fbTailDone", DoneEvent, content, i)

\* the fallback after `await replicateClient.run(...)` returned prediction
FallbackAfterRun(prediction) ==
    IF Truthy(prediction)
    THEN LET content == PredictionText(prediction) IN
         IF IsValidTextContent(Str(content))
         THEN FallbackLoop(content, 0)
         ELSE GenStep("fbTailDone", DoneEvent, content, 0)
    ELSE GenStep("finished", NoEvent, <<>>, 0)

\* the generator's variables after a step
ApplyGenStep(step) ==
    /\ genPc' = step.pc
    /\ fbContent' = step.content
    /\ fbIdx' = step.idx
    /\ IF step.ev = NoEvent
       THEN UNCHANGED <<held, events, want>>
       ELSE /\ held' = step.ev
            /\ events' = Append(events, step.ev)
            /\ want' = FALSE

\* the for-await of the generator receives the raw item and runs the loop
\* body on it
Receive(item) ==
    /\ genPc = "native" /\ want /\ streamState = "open"
    /\ rawCount < MaxRawItems
    /\ LET ev == NormalizeRaw(item) IN
       ApplyGenStep(GenStep(IF ev = DoneEvent THEN "brokeOnDone" ELSE "native",
                            ev, fbContent, fbIdx))
    /\ rawCount' = rawCount + 1
    /\ UNCHANGED <<genError, fbStart>>
    /\ UNCHANGED <<calls, runState, runResult, runLate, runError, streamState>>
    /\ UNCHANGED <<requestVars, handlerVars, encoderVars>>

\* the backend stream delivers a raw item to the for-await of the generator
BackendStreamYields ==
    /\ \E item \in RawItems : Receive(item)
    /\ UNCHANGED raws

\* variant of BackendStreamEnds that yields the trailing `done` only after
\* an output
BackendStreamEndsAfterOutput ==
    /\ genPc = "native" /\ want /\ streamState = "open"
    /\ streamState' = "ended"
    /\ ApplyGenStep(IF events # <<>>
                    THEN GenStep("tailDone", DoneEvent, fbContent, fbIdx)
                    ELSE GenStep("finished", NoEvent, fbContent, fbIdx))
    /\ UNCHANGED <<genError, fbStart>>
    /\ UNCHANGED <<calls, runState, runResult, runLate, runError, rawCount, raws>>
    /\ UNCHANGED <<requestVars, handlerVars, encoderVars>>

\* the backend stream ends: the loop is left and the trailing `done` yielded
BackendStreamEnds ==
    /\ genPc = "native" /\ want /\ streamState = "open"
    /\ streamState' = "ended"
    /\ ApplyGenStep(GenStep("tailDone", DoneEvent, fbContent, fbIdx))
    /\ UNCHANGED <<genError, fbStart>>
    /\ UNCHANGED <<calls, runState, runResult, runLate, runError, rawCount, raws>>
    /\ UNCHANGED <<requestVars, handlerVars, encoderVars>>

\* the backend stream raises (while being opened or mid-flight): the inner
\* catch calls run with the same model id and input
BackendStreamFails ==
    /\ genPc = "native" /\ want /\ streamState = "open"
    /\ streamState' = "failed"
    /\ genPc' = "fallbackRun"
    /\ fbStart' = Len(events)
    /\ runState' = "pending"
    /\ calls' = Append(calls, Call("run"))
    /\ UNCHANGED <<genError, fbContent, fbIdx, want, held, events>>
    /\ UNCHANGED <<runResult, runLate, runError, rawCount, raws>>
    /\ UNCHANGED <<requestVars, handlerVars, encoderVars>>

\* next() on a generator suspended at a yield that is not followed by a
\* backend await
GeneratorResumes ==
    /\ want
    /\ genPc \in {"brokeOnDone", "tailDone", "fallbackChunks", "fbTailDone"}
    /\ ApplyGenStep(
         CASE genPc = "brokeOnDone" -> GenStep("tailDone", DoneEvent, fbContent, fbIdx)
           [] genPc = "fallbackChunks" -> FallbackLoop(fbContent, fbIdx + chunkSize)
           [] OTHER -> GenStep("finished", NoEvent, fbContent, fbIdx))
    /\ UNCHANGED <<genError, fbStart>>
    /\ UNCHANGED <<requestVars, handlerVars, backendVars, encoderVars>>

(***************************************************************************)
(* replicateClient.run settles: in getModelResponse (synchronous mode) or  *)
(* in the fallback of streamModelResponse.                                 *)
(***************************************************************************)
\* getModelResponse returned: handleNonStreamResponse builds the completion
NonStreamReturns(prediction) ==
    IF RaceTakes(race, "call")
    THEN Deliver(ReturnFromInternal([race EXCEPT !["call"] = "resolved"],
                    IF fault.point = "nonstream"
                    THEN NonStreamCatchOther(fault.text)
                    ELSE CompletionResponse(PredictionText(prediction))))
    ELSE UNCHANGED <<race, resp, respCount>>

\* getModelResponse threw the classified error: the catch of
\* handleNonStreamResponse answers
NonStreamThrows(error) ==
    IF RaceTakes(race, "call")
    THEN Deliver(ReturnFromInternal([race EXCEPT !["call"] = "rejected"],
                                    NonStreamCatch(HandleReplicateError(error), FALSE)))
    ELSE UNCHANGED <<race, resp, respCount>>

RunReturns ==
    /\ runState = "pending"
    /\ runState' = "returned"
    /\ runLate' = TimeoutExpired
    /\ \E prediction \in Predictions :
         /\ runResult' = prediction
         /\ IF isStream
            THEN /\ ApplyGenStep(FallbackAfterRun(prediction))
                 /\ UNCHANGED <<race, resp, respCount>>
            ELSE /\ NonStreamReturns(prediction)
                 /\ UNCHANGED <<genPc, fbContent, fbIdx, held, events, want>>
    /\ hpc' = IF ~isStream /\ fault.point = "nonstream" /\ RaceTakes(race, "call")
              THEN "crashed" ELSE hpc
    /\ UNCHANGED <<timerQueue, genError, fbStart>>
    /\ UNCHANGED <<calls, runError, streamState, rawCount, raws>>
    /\ UNCHANGED <<requestVars, encoderVars>>

\* variant of RunFails that calls run once more when it raised
RunFailsAndRetries ==
    /\ runState = "pending"
    /\ \E error \in BackendErrors : runError' = error
    /\ calls' = Append(calls, Call("run"))
    /\ UNCHANGED <<runState, runResult, runLate, streamState, rawCount, raws>>
    /\ UNCHANGED <<requestVars, handlerVars, generatorVars, encoderVars>>

\* variant of RunFails in which the fallback swallows the error of run and
\* the generator ends with a `done`
RunFailsSilently ==
    /\ runState = "pending"
    /\ runState' = "failed"
    /\ runLate' = TimeoutExpired
    /\ \E error \in BackendErrors :
         /\ runError' = error
         /\ IF isStream
            THEN /\ ApplyGenStep(GenStep("fbTailDone", DoneEvent, fbContent, fbIdx))
                 /\ UNCHANGED <<genError, race, resp, respCount>>
            ELSE /\ NonStreamThrows(error)
                 /\ UNCHANGED <<genPc, genError, fbContent, fbIdx, want, held, events>>
    /\ UNCHANGED <<hpc, timerQueue, fbStart>>
    /\ UNCHANGED <<calls, runResult, streamState, rawCount, raws>>
    /\ UNCHANGED <<requestVars, encoderVars>>

\* run raised: nothing retries it.  In the fallback the error leaves the
\* inner catch and the outer catch throws its classification.
RunFails ==
    /\ runState = "pending"
    /\ runState' = "failed"
    /\ runLate' = TimeoutExpired
    /\ \E error \in BackendErrors :
         /\ runError' = error
         /\ IF isStream
            THEN /\ genPc' = "thrown"
                 /\ genError' = HandleReplicateError(error)
                 /\ UNCHANGED <<race, resp, respCount>>
            ELSE /\ NonStreamThrows(error)
                 /\ UNCHANGED <<genPc, genError>>
    /\ UNCHANGED <<hpc, timerQueue, fbContent, fbIdx, fbStart, want, held, events>>
    /\ UNCHANGED <<calls, runResult, streamState, rawCount, raws>>
    /\ UNCHANGED <<requestVars, encoderVars>>

(***************************************************************************)
(* The start() routine of the ReadableStream of handleStreamResponse.      *)
(***************************************************************************)
\* the loop body for the event yielded: role chunk on the first event, then
\* the content chunk; or the finish chunk and the [DONE] line, break (which
\* returns the generator) and controller.close()
EncoderHandlesEvent ==
    /\ encPc = "iterating"
    /\ held # NoEvent
    /\ frames' = frames \o EncodeEvent(held, isFirstEvent)
    /\ isFirstEvent' = FALSE
    /\ held' = NoEvent
    /\ IF held.event = "done"
       THEN /\ encPc' = "closed"
            /\ genPc' = "returned"
       ELSE /\ encPc' = "delay"
            /\ UNCHANGED genPc
    /\ UNCHANGED <<genError, fbContent, fbIdx, fbStart, want, events>>
    /\ UNCHANGED <<requestVars, handlerVars, backendVars>>

\* variant of the for-await that calls next() while the event it received
\* is still waiting to be encoded
EncoderRequestsNextEarly ==
    /\ encPc = "iterating"
    /\ held # NoEvent /\ ~want
    /\ want' = TRUE
    /\ UNCHANGED <<encPc, isFirstEvent, frames>>
    /\ UNCHANGED <<genPc, genError, fbContent, fbIdx, fbStart, held, events>>
    /\ UNCHANGED <<requestVars, handlerVars, backendVars>>

\* the 1 ms delay after a content chunk elapsed: the for-await calls next()
EncoderRequestsNext ==
    /\ encPc = "delay"
    /\ encPc' = "iterating"
    /\ want' = TRUE
    /\ UNCHANGED <<isFirstEvent, frames>>
    /\ UNCHANGED <<genPc, genError, fbContent, fbIdx, fbStart, held, events>>
    /\ UNCHANGED <<requestVars, handlerVars, backendVars>>

\* variant of start() in which controller.close() belongs to the done
\* branch: a loop that ends without a Done leaves the stream open
EncoderLoopEndsWithoutClose ==
    /\ encPc = "iterating" /\ want
    /\ genPc = "finished"
    /\ want' = FALSE
    /\ UNCHANGED <<encPc, isFirstEvent, frames>>
    /\ UNCHANGED <<genPc, genError, fbContent, fbIdx, fbStart, held, events>>
    /\ UNCHANGED <<requestVars, handlerVars, backendVars>>

\* the generator returned without a further event: the loop ends and
\* controller.close() is called
EncoderLoopEnds ==
    /\ encPc = "iterating" /\ want
    /\ genPc = "finished"
    /\ encPc' = "closed"
    /\ want' = FALSE
    /\ UNCHANGED <<isFirstEvent, frames>>
    /\ UNCHANGED <<genPc, genError, fbContent, fbIdx, fbStart, held, events>>
    /\ UNCHANGED <<requestVars, handlerVars, backendVars>>

\* variant of the catch block that completes the body after the error frame
EncoderCatchesAndFinishes ==
    /\ encPc = "iterating" /\ want
    /\ genPc = "thrown"
    /\ frames' = frames \o <<ErrorFrame(genError), FinishFrame, DoneFrame>>
    /\ encPc' = "errored"
    /\ want' = FALSE
    /\ UNCHANGED isFirstEvent
    /\ UNCHANGED <<genPc, genError, fbContent, fbIdx, fbStart, held, events>>
    /\ UNCHANGED <<requestVars, handlerVars, backendVars>>

\* the generator threw: the catch block enqueues the in-band error frame and
\* calls controller.error()
EncoderCatches ==
    /\ encPc = "iterating" /\ want
    /\ genPc = "thrown"
    /\ frames' = Append(frames, ErrorFrame(genError))
    /\ encPc' = "errored"
    /\ want' = FALSE
    /\ UNCHANGED isFirstEvent
    /\ UNCHANGED <<genPc, genError, fbContent, fbIdx, fbStart, held, events>>
    /\ UNCHANGED <<requestVars, handlerVars, backendVars>>

Next ==
    \/ HandlerStart
    \/ BodyParsed
    \/ TimerFires
    \/ BackendStreamYields
    \/ BackendStreamEnds
    \/ BackendStreamFails
    \/ GeneratorResumes
    \/ RunReturns
    \/ RunFails
    \/ EncoderHandlesEvent
    \/ EncoderRequestsNext
    \/ EncoderLoopEnds
    \/ EncoderCatches

Spec == Init /\ [][Next]_vars

(***************************************************************************)
(* processMessages step by step, on every message list within the bounds,  *)
(* followed by the handler's check of its result and buildModelInput.      *)
(***************************************************************************)
\* a request carries at most this many messages
MaxMessages == 2

MessageAlphabet ==
    { Message("system", StringContent(TxtPadded)),
      Message("system", StringContent(TxtOk)),
      Message("system", StringContent(<<>>)),
      Message("system", ArrayContent(<<TextPart(TxtOk), TextPart(<<>>), ImagePart("url-0"),
                                       TextPart(TxtHi)>>)),
      Message("user", StringContent(TxtHi)),
      Message("user", StringContent(<<>>)),
      Message("user", NoContent),
      Message("user", ArrayContent(<<>>)),
      Message("user", ArrayContent(<<TextPart(TxtHi), ImagePart("url-1"), TextPart(TxtOk),
                                     ImagePart("url-2")>>)),
      Message("user", ArrayContent(<<ImagePart("url-3")>>)),
      Message("user", ArrayContent(<<ImagePart(""), OtherPart, TextPart(<<>>)>>)),
      Message("user", ArrayContent(<<ImagePart("url-4"), NullPart>>)),
      Message("assistant", StringContent(TxtOk)),
      Message("assistant", ArrayContent(<<TextPart(TxtOk), ImagePart("url-5")>>)),
      Message("", StringContent(TxtHi)),
      NullMessage }

MessageLists ==
    {NotAList}
    \cup { MessageList(ms) :
             ms \in UNION { [1..n -> MessageAlphabet] : n \in 0..MaxMessages } }

NormalizerInit ==
    /\ \E ml \in MessageLists :
          Receives(Request("chat", ValidHeader, FALSE, PROXY_MODEL_NAME,
                           Body("object", ml, Undefined), NoFault))
    /\ NothingRan

\* a write to messagesClone: it reaches the caller's list when both are the
\* same object
WrittenThrough(cb, items) ==
    IF cb.aliased THEN [cb EXCEPT !.messages.items = items] ELSE cb

\* variant of processMessages that works on requestBody.messages itself
ProcessMessagesBeginsWithoutCopy ==
    /\ npc = "idle"
    /\ IF ~callerBody.messages.isList \/ Len(callerBody.messages.items) = 0
       THEN npc' = "returned" /\ UNCHANGED <<work, callerBody>>
       ELSE /\ npc' = "cloned"
            /\ work' = callerBody.messages.items
            /\ callerBody' = [callerBody EXCEPT !.aliased = TRUE]
    /\ UNCHANGED <<systemPrompt, imageUrls, userContent, input>>
    /\ UNCHANGED <<clientVars, handlerVars, backendVars, generatorVars, encoderVars>>

\* processMessages up to the deep copy of the messages: the copy is made of
\* new objects
ProcessMessagesBegins ==
    /\ npc = "idle"
    /\ IF ~callerBody.messages.isList \/ Len(callerBody.messages.items) = 0
       THEN npc' = "returned" /\ UNCHANGED <<work, callerBody>>
       ELSE /\ npc' = "cloned"
            /\ work' = callerBody.messages.items
            /\ callerBody' = [callerBody EXCEPT !.aliased = FALSE]
    /\ UNCHANGED <<systemPrompt, imageUrls, userContent, input>>
    /\ UNCHANGED <<clientVars, handlerVars, backendVars, generatorVars, encoderVars>>

\* systemPrompt = extractSystemPrompt(messagesClone), or the catch block
SystemPromptExtracted ==
    /\ npc = "cloned"
    /\ LET sys == ExtractSystemPrompt(work) IN
       IF sys.raised
       THEN npc' = "returned" /\ UNCHANGED <<work, callerBody, systemPrompt>>
       ELSE /\ npc' = "systemExtracted"
            /\ work' = sys.messages
            /\ callerBody' = WrittenThrough(callerBody, sys.messages)
            /\ systemPrompt' = sys.systemPrompt
    /\ UNCHANGED <<imageUrls, userContent, input>>
    /\ UNCHANGED <<clientVars, handlerVars, backendVars, generatorVars, encoderVars>>

\* extractImageUrls(messagesClone, imageUrls), or the catch block
ImageUrlsExtracted ==
    /\ npc = "systemExtracted"
    /\ LET img == ExtractImageUrls(work, imageUrls) IN
       /\ npc' = IF img.raised THEN "returned" ELSE "imagesExtracted"
       /\ work' = img.messages
       /\ callerBody' = WrittenThrough(callerBody, img.messages)
       /\ imageUrls' = img.imageUrls
    /\ UNCHANGED <<systemPrompt, userContent, input>>
    /\ UNCHANGED <<clientVars, handlerVars, backendVars, generatorVars, encoderVars>>

\* userContent = formatMessagesToConversation(messagesClone), or the catch
\* block
ConversationFormatted ==
    /\ npc = "imagesExtracted"
    /\ npc' = "returned"
    /\ LET fmt == FormatMessagesToConversation(work) IN
       userContent' = IF fmt.raised THEN UndefinedText ELSE DefinedText(fmt.text)
    /\ UNCHANGED <<work, callerBody, systemPrompt, imageUrls, input>>
    /\ UNCHANGED <<clientVars, handlerVars, backendVars, generatorVars, encoderVars>>

\* the handler's `if (!userContent)` and buildModelInput
InputBuilt ==
    /\ npc = "returned"
    /\ IF ~userContent.defined \/ userContent.text = <<>>
       THEN npc' = "rejected" /\ UNCHANGED input
       ELSE /\ npc' = "built"
            /\ input' = BuildModelInput(userContent.text, systemPrompt, imageUrls,
                                        requestBody.max_tokens)
    /\ UNCHANGED <<work, callerBody, systemPrompt, imageUrls, userContent>>
    /\ UNCHANGED <<clientVars, handlerVars, backendVars, generatorVars, encoderVars>>

NormalizerNext ==
    \/ ProcessMessagesBegins
    \/ SystemPromptExtracted
    \/ ImageUrlsExtracted
    \/ ConversationFormatted
    \/ InputBuilt

NormalizerSpec == NormalizerInit /\ [][NormalizerNext]_vars

(***************************************************************************)
(* The streaming pipeline of one request with a record of the raw items    *)
(* the backend stream delivered: the generator streamModelResponse, its    *)
(* consumer in handleStreamResponse, and the fallback call.  No timer      *)
(* expires.                                                                *)
(***************************************************************************)
\* the raw items of this specification: strings that are valid, empty,
\* sentinels or blank, and objects with and without the fields event and data
StreamItems ==
    { RawString(TxtHe), RawString(TxtEmpty), RawString(TxtBraces), RawString(TxtNull),
      RawString(TxtBlank),
      RawObject(TRUE, "output", TRUE, Str(TxtLlo)),
      RawObject(TRUE, "output", TRUE, Str(TxtBraces)),
      RawObject(TRUE, "done", TRUE, NotAString),
      RawObject(TRUE, "completed", TRUE, Str(TxtHe)),
      RawObject(TRUE, "error", TRUE, Str(TxtHe)),
      RawObject(FALSE, "", TRUE, Str(TxtLlo)),
      RawObject(FALSE, "", TRUE, NotAString),
      RawObject(TRUE, "done", FALSE, NotAString),
      RawOther }

\* what the loop body of streamModelResponse writes to the log for a raw item
\* it skips: the first characters of the item's text (String(event) of a
\* string, JSON.stringify(event) of an object, which holds the text of its
\* data field); logged: an entry is written
LogEntry(logged, preview) == [logged |-> logged, preview |-> preview]

SkipLog(item) ==
    IF NormalizeRaw(item) # NoEvent THEN LogEntry(FALSE, <<>>)
    ELSE IF item.kind = "string" THEN LogEntry(TRUE, Slice(item.data.text, 0, 50))
    ELSE IF item.kind = "object"
    THEN IF item.hasEvent /\ item.hasData THEN LogEntry(FALSE, <<>>)
         ELSE LogEntry(TRUE, IF item.hasData THEN item.data.text ELSE <<>>)
    ELSE LogEntry(TRUE, <<>>)

StreamInit ==
    /\ Receives(Request("chat", ValidHeader, TRUE, PROXY_MODEL_NAME, BodyHello, NoFault))
    /\ NothingRan

\* the backend stream delivers a raw item; the item is recorded
StreamDelivers ==
    \E item \in StreamItems :
       /\ Receive(item)
       /\ raws' = Append(raws, item)

StreamNext ==
    \/ HandlerStart
    \/ BodyParsed
    \/ StreamDelivers
    \/ BackendStreamEnds
    \/ BackendStreamFails
    \/ GeneratorResumes
    \/ RunReturns
    \/ RunFails
    \/ EncoderHandlesEvent
    \/ EncoderRequestsNext
    \/ EncoderLoopEnds
    \/ EncoderCatches

StreamSpec == StreamInit /\ [][StreamNext]_vars

\* the streaming pipeline under the assumption that the backend calls
\* settle (the stream yields its next item, ends or fails; run returns or
\* fails) and that the event loop runs every continuation that is ready:
\* a step is taken whenever one is possible
StreamLiveNext ==
    \/ HandlerStart
    \/ BodyParsed
    \/ BackendStreamYields
    \/ BackendStreamEnds
    \/ BackendStreamFails
    \/ GeneratorResumes
    \/ RunReturns
    \/ RunFails
    \/ EncoderHandlesEvent
    \/ EncoderRequestsNext
    \/ EncoderLoopEnds
    \/ EncoderCatches

StreamLiveSpec == StreamInit /\ [][StreamLiveNext]_vars /\ WF_vars(StreamLiveNext)

(***************************************************************************)
(* Two streaming requests in flight together.  Everything a request uses   *)
(* is a local of its own handler invocation or a field of its own          *)
(* ApiService instance; the module level holds constants only.  A session  *)
(* is the set of locals of one invocation; an absent value is <<>> or "".  *)
(***************************************************************************)
SessionIds == {1, 2}

\* a second credential of ten characters
TxtKey2 == <<"r", "8", "_", "z", "y", "x", "w", "v", "u", "t">>

\* the values crypto.randomUUID() can return
CompletionIds == {"chatcmpl-a", "chatcmpl-b"}

\* the ApiService instance: the fields its constructor sets
ApiService(apiKey, requestModelId) ==
    [apiKey |-> apiKey, requestModelId |-> requestModelId,
     actualModelId |-> GetActualModelId(requestModelId)]
NoApiService == [apiKey |-> <<>>, requestModelId |-> "", actualModelId |-> ""]

\* a call of replicateClient.stream as the backend sees it: the credential
\* of the client it is made with, the model id and the prompt
BackendCall(key, model, prompt) == [made |-> TRUE, key |-> key, model |-> model, prompt |-> prompt]
NoBackendCall == [made |-> FALSE, key |-> <<>>, model |-> "", prompt |-> <<>>]

\* the texts the backend streams for a call: they depend on the account and
\* on the prompt of that call
Reply(call) == <<call.key, call.prompt>>

\* an SSE frame with the completion id and the model name it carries
SessionFrame(id, model, f) == [id |-> id, model |-> model, frame |-> f]

Session(hdr, model, content) ==
    [authHeader |-> hdr, requestModel |-> model, content |-> content,
     pc |-> "received", status |-> 0,
     userApiKey |-> <<>>, requestModelName |-> "", prompt |-> <<>>,
     chatCompletionId |-> "", apiService |-> NoApiService,
     call |-> NoBackendCall, received |-> 0, isFirstEvent |-> TRUE, frames |-> <<>>]

SessionInputs ==
    { Session(Header(TxtBearer \o <<" ">> \o key), model, content) :
        key \in {TxtKey, TxtKey2, TxtShortKey},
        model \in {"claude-sonnet-4-20250514", "anthropic/claude-3.5-haiku"},
        content \in {TxtHi, TxtOk} }

\* variant of CreateApiService in which the instance is one module-level
\* object: the constructor call of a request replaces it for every request
CreateApiServiceShared(ss, r) ==
    [q \in DOMAIN ss |->
        [ss[q] EXCEPT !.apiService = ApiService(ss[r].userApiKey, ss[r].requestModelName)]]

\* createApiService(userApiKey, requestModelName, requestId): a new instance
\* held by the invocation that created it
CreateApiService(ss, r) ==
    [ss EXCEPT ![r].apiService = ApiService(ss[r].userApiKey, ss[r].requestModelName)]

\* every variable of the single-request specifications
aloneVars ==
    <<route, authHeader, requestBody, isStream, requestModel, fault,
      processVars, input, handlerVars, backendVars, generatorVars, encoderVars>>

ConcurrentInit ==
    /\ sessions \in [SessionIds -> SessionInputs]
    /\ route = "chat" /\ authHeader = NoHeader /\ requestBody = BodyHello
    /\ isStream = TRUE /\ requestModel = "" /\ fault = NoFault
    /\ NothingRan

\* handleChatCompletionRequest: validateAndExtractApiKey
SessionAuthenticates(r) ==
    /\ sessions[r].pc = "received"
    /\ LET auth == ValidateAndExtractApiKey(sessions[r].authHeader) IN
       sessions' =
          IF auth.isValid
          THEN [sessions EXCEPT ![r].pc = "authenticated", ![r].userApiKey = auth.apiKey]
          ELSE [sessions EXCEPT ![r].pc = "answered", ![r].status = auth.response.status]
    /\ UNCHANGED aloneVars

\* handleChatCompletionRequestInternal: the model name, the prompt, the
\* completion id (a value no other request in flight holds) and the
\* ApiService instance
SessionPrepares(r) ==
    /\ sessions[r].pc = "authenticated"
    /\ \E id \in CompletionIds \ {sessions[q].chatCompletionId : q \in SessionIds} :
         sessions' =
            CreateApiService(
               [sessions EXCEPT
                   ![r].pc = "prepared",
                   ![r].requestModelName =
                        ValidateRequestModel(sessions[r].requestModel).modelName,
                   ![r].prompt =
                        ProcessMessages(MessageList(
                            <<Message("user", StringContent(sessions[r].content))>>))
                          .userContent.text,
                   ![r].chatCompletionId = id],
               r)
    /\ UNCHANGED aloneVars

\* handleStreamResponse returns the Response; streamModelResponse calls
\* initReplicate(this.apiKey) and stream(this.actualModelId, {input})
SessionCalls(r) ==
    /\ sessions[r].pc = "prepared"
    /\ sessions' =
          [sessions EXCEPT
              ![r].pc = "streaming",
              ![r].status = EventStreamResponse.status,
              ![r].call = BackendCall(sessions[r].apiService.apiKey,
                                      sessions[r].apiService.actualModelId,
                                      sessions[r].prompt)]
    /\ UNCHANGED aloneVars

\* the stream of the request's own call delivers its next text, or ends; the
\* loop body of handleStreamResponse enqueues the frames
SessionReceives(r) ==
    /\ sessions[r].pc = "streaming"
    /\ LET s == sessions[r]
           texts == Reply(s.call)
           ev == IF s.received < Len(texts)
                 THEN NormalizeRaw(RawString(texts[s.received + 1]))
                 ELSE DoneEvent
           fs == EncodeEvent(ev, s.isFirstEvent)
       IN sessions' =
             [sessions EXCEPT
                 ![r].received = s.received + 1,
                 ![r].isFirstEvent = FALSE,
                 ![r].frames =
                     s.frames \o [k \in 1..Len(fs) |->
                                     SessionFrame(s.chatCompletionId, s.requestModelName, fs[k])],
                 ![r].pc = IF ev = DoneEvent THEN "closed" ELSE "streaming"]
    /\ UNCHANGED aloneVars

ConcurrentNext ==
    \E r \in SessionIds :
       \/ SessionAuthenticates(r)
       \/ SessionPrepares(r)
       \/ SessionCalls(r)
       \/ SessionReceives(r)

ConcurrentSpec == ConcurrentInit /\ [][ConcurrentNext]_vars

(***************************************************************************)
(* Properties.                                                             *)
(***************************************************************************)
\* the generator returned, by itself or through the break of its consumer
GeneratorEnded == genPc \in {"finished", "returned"}

\* events is Output(t1), ..., Output(tn), Done
OutputsThenDone(evs) ==
    /\ Len(evs) >= 1
    /\ evs[Len(evs)] = DoneEvent
    /\ \A i \in 1..(Len(evs) - 1) : evs[i].event = "output"

IsRoleOnlyChunk(f) ==
    f.type = "chunk" /\ f.role = "assistant" /\ f.content = <<>> /\ f.finish_reason = ""

IsContentChunk(f, t) ==
    f.type = "chunk" /\ f.role = "" /\ f.content = t /\ f.finish_reason = ""

IsFinishChunk(f) ==
    f.type = "chunk" /\ f.role = "" /\ f.content = <<>> /\ f.finish_reason = "stop"

\* C1: when the response stream of a streaming request is closed and the
\* normalized events were Output(t1), ..., Output(tn), Done, the frames on the
\* stream are exactly: the role-only chunk, the n content chunks carrying
\* t1..tn in order, the finish chunk with finish_reason "stop", and the line
\* `data: [DONE]`; the [DONE] line is the last frame and the stream is closed
\* with it.
C1_StreamFramesInOrder ==
    /\ (encPc = "closed" /\ OutputsThenDone(events)) =>
          /\ Len(frames) = Len(events) + 2
          /\ IsRoleOnlyChunk(frames[1])
          /\ \A i \in 1..(Len(events) - 1) : IsContentChunk(frames[i + 1], events[i].data)
          /\ IsFinishChunk(frames[Len(events) + 1])
          /\ frames[Len(events) + 2].type = "done"
    /\ \A i \in 1..Len(frames) :
          frames[i].type = "done" => (i = Len(frames) /\ encPc = "closed")

\* Scenario B: raw chunks "He", "llo", then the end of the stream
C1_Witness ==
    /\ isStream /\ encPc = "closed" /\ streamState = "ended" /\ rawCount = 2
    /\ events = <<OutputEvent(TxtHe), OutputEvent(TxtLlo), DoneEvent>>
    /\ Len(frames) = 5

\* C2: every finish chunk on the response stream has an empty delta,
\* finish_reason "stop" and a usage object with all three counters zero.
C2_FinishChunkHasZeroUsage ==
    \A i \in 1..Len(frames) :
        (frames[i].type = "chunk" /\ frames[i].finish_reason = "stop") =>
            /\ frames[i].role = "" /\ frames[i].content = <<>>
            /\ frames[i].usage = <<ZeroUsage>>

\* the text the claim C3 expects for a run result
RECURSIVE ConcatAll(_)
ConcatAll(parts) ==
    IF Len(parts) = 0 THEN <<>> ELSE ConcatAll(SubSeq(parts, 1, Len(parts) - 1)) \o parts[Len(parts)]

ExpectedRunText(prediction) ==
    IF prediction.kind = "array" THEN ConcatAll(prediction.parts)
    ELSE IF prediction.kind = "string" THEN prediction.parts[1]
    ELSE <<"n", "u", "l", "l">>

\* C3: in synchronous mode, when run returned before the request's timeout
\* expired (and no library call raised while the response was built), the
\* client has the HTTP 200 JSON completion whose content is the run result
\* (fragments joined with no separator, a single value stringified), with
\* finish_reason "stop" and all usage counters zero.
C3_NonStreamCompletion ==
    (~isStream /\ runState = "returned" /\ ~runLate /\ fault.point # "nonstream") =>
        /\ resp.status = 200
        /\ resp.contentType = "application/json"
        /\ resp.content = ExpectedRunText(runResult)
        /\ resp.finish_reason = "stop"
        /\ resp.usage = <<[prompt_tokens |-> 0, completion_tokens |-> 0, total_tokens |-> 0]>>
        /\ respCount = 1

C3_Witness ==
    /\ ~isStream /\ runState = "returned" /\ ~runLate
    /\ runResult = PredArray(<<TxtHe, TxtLlo>>)
    /\ resp.status = 200
    /\ resp.content = <<"H", "e", "l", "l", "o">>

\* the consecutive 15-character slices of a text, the last possibly shorter
RECURSIVE SlicesOf(_, _)
SlicesOf(t, n) ==
    IF Len(t) = 0 THEN <<>>
    ELSE IF Len(t) <= n THEN <<t>>
    ELSE <<SubSeq(t, 1, n)>> \o SlicesOf(SubSeq(t, n + 1, Len(t)), n)

\* the events yielded since the fallback started
FallbackEvents == SubSeq(events, fbStart + 1, Len(events))

\* the texts of the Output events among evs, in order
RECURSIVE OutputTexts(_)
OutputTexts(evs) ==
    IF evs = <<>> THEN <<>>
    ELSE (IF Head(evs).event = "output" THEN <<Head(evs).data>> ELSE <<>>)
         \o OutputTexts(Tail(evs))

\* the fallback ran to its end: the stream call failed, run returned, and
\* the generator is over
FallbackCompleted ==
    isStream /\ streamState = "failed" /\ runState = "returned" /\ GeneratorEnded

\* C4: when the stream call failed and the one run call (same model id, same
\* input) returned, the events of the fallback end with Done; and for a
\* returned text that is valid content the Output events before that Done
\* carry the consecutive 15-character slices of the whole text, in order.
C4_FallbackEmitsTextThenDone ==
    FallbackCompleted =>
        /\ calls = <<Call("stream"), Call("run")>>
        /\ FallbackEvents # <<>>
        /\ FallbackEvents[Len(FallbackEvents)] = DoneEvent
        /\ IsValidTextContent(Str(ExpectedRunText(runResult))) =>
              FallbackEvents =
                 [i \in 1..Len(SlicesOf(ExpectedRunText(runResult), 15)) |->
                     OutputEvent(SlicesOf(ExpectedRunText(runResult), 15)[i])]
                 \o <<DoneEvent>>

\* C5: for every text the fallback call returned that is valid content as a
\* whole, the Output events of the fallback carry its consecutive
\* 15-character slices (only the last may be shorter) and their
\* concatenation is the text.
C5_FallbackRoundTrip ==
    (FallbackCompleted /\ runResult.kind = "string"
        /\ IsValidTextContent(Str(runResult.parts[1]))) =>
        /\ OutputTexts(FallbackEvents) = SlicesOf(runResult.parts[1], 15)
        /\ ConcatAll(OutputTexts(FallbackEvents)) = runResult.parts[1]

\* the calls of one kind among the backend calls made
CallsOf(api) == {i \in 1..Len(calls) : calls[i].api = api}

\* C6: no retries.  A streaming request makes at most one stream call and at
\* most one run call, the run call only after the stream call failed, also
\* once run has failed; a synchronous request makes no stream call and, once
\* dispatched, exactly one run call.  Every call carries the request's model
\* id and input.
C6_NoRetries ==
    /\ Cardinality(CallsOf("stream")) <= 1
    /\ Cardinality(CallsOf("run")) <= 1
    /\ \A i \in 1..Len(calls) :
          /\ calls[i].model = MappingLookup(IF requestModel = "" THEN PROXY_MODEL_NAME
                                            ELSE requestModel)
          /\ calls[i].input = input
    /\ isStream =>
          /\ CallsOf("run") # {} => (streamState = "failed" /\ calls[1].api = "stream")
          /\ hpc = "dispatched" => Cardinality(CallsOf("stream")) = 1
    /\ ~isStream =>
          /\ CallsOf("stream") = {}
          /\ hpc = "dispatched" => Cardinality(CallsOf("run")) = 1

\* both the stream call and its fallback failed, and the stream was errored
C6_Witness ==
    /\ isStream /\ streamState = "failed" /\ runState = "failed"
    /\ encPc = "errored" /\ Len(calls) = 2

\* the status the claim C7 expects for a backend error
OwnStatus(error) ==
    IF error.response # 0 THEN error.response
    ELSE IF error.status # 0 THEN error.status ELSE 500

\* C7: when the backend failed before the request's timeout expired (in
\* streaming mode: the stream call and the fallback run both failed), the
\* HTTP status of the response is the backend error's own status when it has
\* one and 500 otherwise.  Stated for the errors whose message the handlers
\* cannot take for a timeout.
C7_BackendFailureStatus ==
    (runState = "failed" /\ ~runLate /\ ~runError.marker
        /\ (isStream => encPc = "errored")) =>
        resp.status = OwnStatus(runError)

\* C8: in synchronous mode, once the timeout has expired with the backend
\* call not completed, the client has exactly one response, the 408 with
\* type "timeout_error" and code "request_timeout", and it stays that
\* response when run settles afterwards.
C8_SyncTimeoutResponse ==
    (~isStream /\ TimeoutExpired /\ (runState \in {"idle", "pending"} \/ runLate)) =>
        /\ resp.status = 408
        /\ resp.type = "timeout_error"
        /\ resp.code = "request_timeout"
        /\ respCount = 1

\* run returned a result after every timer had fired
C8_Witness ==
    /\ ~isStream /\ runState = "returned" /\ runLate /\ timerQueue = <<>>
    /\ resp.status = 408 /\ respCount = 1

\* C9: in streaming mode, once every timeout of the request has expired the
\* response stream is not left open waiting for the backend: it has been
\* terminated, with an in-band error frame when it was stalled.
C9_StreamTimeoutTerminates ==
    (isStream /\ hpc = "dispatched" /\ timerQueue = <<>>) =>
        ~(encPc = "iterating" /\ want /\ genPc \in {"native", "fallbackRun"})

\* C10: once the timeout response has been produced, no backend call is
\* running any more.
C10_TimeoutAbortsBackendCall ==
    (resp.status = 408 /\ hpc = "dispatched") =>
        (runState # "pending" /\ streamState # "open")

\* the header starts with "Bearer " in any letter case
BearerLetters ==
    << {"B", "b"}, {"E", "e"}, {"A", "a"}, {"R", "r"}, {"E", "e"}, {"R", "r"}, {" "} >>

HasBearerPrefix(h) ==
    /\ ~h.isNull
    /\ Len(h.text) >= 7
    /\ \A i \in 1..7 : h.text[i] \in BearerLetters[i]

\* the characters after the 7 of "Bearer "
Credential(h) == SubSeq(h.text, 8, Len(h.text))

\* the client has exactly one response, the 401 with this code, and nothing
\* was sent to the backend
Has401(co) ==
    /\ resp.status = 401
    /\ resp.code = co
    /\ resp.type = "invalid_request_error"
    /\ "WWW-Authenticate" \in resp.headers
    /\ respCount = 1
    /\ calls = <<>>

\* C11: once the handler has run on a chat-completion request, a request
\* with no Authorization header, or with one that does not start with
\* "Bearer " (in any letter case), has the 401 with code
\* "missing_or_invalid_header"; one whose credential is shorter than 10
\* characters has the 401 with code "invalid_auth_key"; both have type
\* "invalid_request_error" and a WWW-Authenticate header, and no backend call
\* is made, also when the request's timers fire afterwards.
C11_AuthErrors ==
    (route = "chat" /\ fault.point # "handler" /\ hpc # "start") =>
        /\ ~HasBearerPrefix(authHeader) => Has401("missing_or_invalid_header")
        /\ (HasBearerPrefix(authHeader) /\ Len(Credential(authHeader)) < 10) =>
              Has401("invalid_auth_key")

\* the header "Bearer r8_abcdef" (9 characters) was answered and both timers
\* of the request have fired since
C11_Witness ==
    /\ authHeader = Header(<<"B", "e", "a", "r", "e", "r", " ",
                             "r", "8", "_", "a", "b", "c", "d", "e", "f">>)
    /\ resp.status = 401 /\ resp.code = "invalid_auth_key"
    /\ hpc = "rejected" /\ timerQueue = <<>>

\* the request passed the credential check and its body was parsed
BodyWasParsed ==
    /\ route = "chat" /\ fault.point # "handler"
    /\ HasBearerPrefix(authHeader) /\ Len(Credential(authHeader)) >= 10
    /\ hpc \notin {"start", "parsing"}
    /\ requestBody.json = "object"
    /\ ~(requestBody.messages.isList /\ HasNullMessage(requestBody.messages.items))

\* C12: an authenticated chat-completion request whose body names a model
\* that is not a key of the model mapping table is not sent to the backend,
\* and the response of the handler is the 400 with type
\* "invalid_request_error", code "model_not_found" and a message that lists
\* the keys of the table; a request that names no model is never answered
\* "model_not_found" and is sent to the backend with the id of the default
\* model name.
C12_ModelValidation ==
    BodyWasParsed =>
        /\ (requestModel # "" /\ requestModel \notin DOMAIN MODEL_MAPPING) =>
              /\ calls = <<>>
              /\ race["chat"] = "resolved" =>
                    /\ resp.status = 400
                    /\ resp.type = "invalid_request_error"
                    /\ resp.code = "model_not_found"
                    /\ \A k \in 1..Len(ModelKeys) :
                          \E j \in 1..Len(resp.message) : resp.message[j] = ModelKeys[k]
        /\ requestModel = "" =>
              /\ resp.code # "model_not_found"
              /\ \A i \in 1..Len(calls) : calls[i].model = MODEL_MAPPING[PROXY_MODEL_NAME]

\* C13: every HTTP error response the client receives (status 400 or above:
\* auth 401, validation 400, not-found 404, backend error, timeout 408, and
\* the 500 of the outermost handler) has a JSON body of the shape
\* {error: {message, type, param: null, code}}.
C13_ErrorBodyShape ==
    resp.status >= 400 =>
        /\ resp.contentType = "application/json"
        /\ resp.body = "{error: {message, type, param: null, code}}"

\* C14: when an unexpected exception (no backend error, no timeout) was
\* caught while the request was handled, the response built for it has
\* status 500 and a message that holds no piece of the exception's text, so
\* that two runs that differ only in that text get identical bodies.
C14_GenericInternalError ==
    hpc = "crashed" =>
        /\ resp.status \in {500, 408}
        /\ resp.status = 500 =>
              \A j \in 1..Len(resp.message) : resp.message[j] \notin ExceptionTexts

\* Array.prototype.join("\n") over an array of strings
RECURSIVE JoinNewline(_)
JoinNewline(parts) ==
    IF parts = <<>> THEN <<>>
    ELSE IF Len(parts) = 1 THEN parts[1]
    ELSE parts[1] \o <<"\n">> \o JoinNewline(Tail(parts))

\* the text bodies of a list of messages: a string content, or the texts of
\* the Text parts of a sequence content (all of them, or those with text)
RECURSIVE TextBodies(_, _)
TextBodies(messages, withEmptyParts) ==
    IF messages = <<>> THEN <<>>
    ELSE LET c == Head(messages).content IN
         (IF c.kind = "string" THEN <<c.text>>
          ELSE IF c.kind = "array"
          THEN LET texts == SelectSeq(c.parts, LAMBDA p : p.type = "text") IN
               LET kept == IF withEmptyParts THEN texts
                           ELSE SelectSeq(texts, LAMBDA p : p.text # <<>>) IN
               [i \in 1..Len(kept) |-> kept[i].text]
          ELSE <<>>)
         \o TextBodies(Tail(messages), withEmptyParts)

\* the system messages of the request, in order
SystemMessages ==
    SelectSeq(requestBody.messages.items, LAMBDA m : m.role = "system")

\* processMessages returned, and extractSystemPrompt had met no null element
SystemPromptReturned ==
    /\ npc \in {"returned", "built", "rejected"}
    /\ requestBody.messages.isList /\ Len(requestBody.messages.items) > 0
    /\ \A i \in 1..Len(requestBody.messages.items) :
          LET m == requestBody.messages.items[i] IN
          /\ ~m.isNull
          /\ m.role = "system" =>
                \A k \in 1..Len(m.content.parts) : m.content.parts[k].type # "null"

\* C15 as stated: the systemPrompt returned by processMessages equals the
\* text bodies of the system messages (a string content, or each Text part of
\* a sequence content) joined by newlines in original order, with only
\* trailing whitespace trimmed; with zero system messages it is empty.
C15_SystemPromptTrailingTrim ==
    SystemPromptReturned =>
        systemPrompt = TrimEnd(JoinNewline(TextBodies(SystemMessages, TRUE)))

\* C15, amended: the systemPrompt returned by processMessages equals the
\* text bodies of the system messages (a string content, or each Text part
\* with a non-empty text of a sequence content) joined by newlines in
\* original order, with the whitespace at both ends trimmed; with zero system
\* messages it is empty.
C15_SystemPromptTrimmed ==
    SystemPromptReturned =>
        /\ systemPrompt =
              TrimEnd(TrimStart(JoinNewline(TextBodies(SystemMessages, FALSE))))
        /\ SystemMessages = <<>> => systemPrompt = <<>>

\* the system messages " Be " and "ok": the prompt is "Be \nok"
C15_Witness ==
    /\ npc = "returned"
    /\ requestBody.messages.items =
          << Message("system", StringContent(<<" ", "B", "e", " ">>)),
             Message("system", StringContent(<<"o", "k">>)) >>
    /\ systemPrompt = <<"B", "e", " ", "\n", "o", "k">>

\* the lines of a text, each without its terminating "\n"
RECURSIVE SplitLines(_)
SplitLines(t) ==
    IF t = <<>> THEN <<>>
    ELSE LET n == CHOOSE k \in 1..(Len(t) + 1) :
                     /\ k = Len(t) + 1 \/ t[k] = "\n"
                     /\ \A j \in 1..(k - 1) : t[j] # "\n" IN
         <<SubSeq(t, 1, n - 1)>> \o SplitLines(SubSeq(t, n + 1, Len(t)))

\* the messages of the request that are not system messages and for which
\* formatMessagesToConversation writes a line, in order
MessagesWithLine ==
    SelectSeq(requestBody.messages.items,
              LAMBDA m : /\ m.role \notin {"system", ""}
                         /\ \/ m.content.kind = "array"
                            \/ m.content.kind = "string" /\ m.content.text # <<>>)

\* C16: no system-role message contributes to the conversation text.  While
\* image extraction and formatting run, and after them, the working list
\* holds no system message (and nothing was extracted or formatted before
\* the removal); the conversation text returned has one line per message
\* that is not a system message, each starting with that message's role, so
\* that no line belongs to a system message.
C16_NoSystemLine ==
    /\ npc \in {"idle", "cloned"} => (imageUrls = <<>> /\ ~userContent.defined)
    /\ (npc \in {"systemExtracted", "imagesExtracted"} \/ userContent.defined) =>
          \A i \in 1..Len(work) : work[i].role # "system"
    /\ userContent.defined =>
          LET lines == SplitLines(userContent.text) IN
          /\ Len(lines) = Len(MessagesWithLine)
          /\ \A i \in 1..Len(lines) :
                /\ StartsWith(lines[i], RoleText(MessagesWithLine[i].role) \o <<":", " ">>)
                /\ ~StartsWith(lines[i], <<"s", "y", "s", "t", "e", "m", ":">>)

\* a system message followed by a user message: one line, the user's
C16_Witness ==
    /\ npc = "built"
    /\ requestBody.messages.items =
          << Message("system", StringContent(<<"o", "k">>)),
             Message("user", StringContent(<<"H", "i">>)) >>
    /\ userContent.text = <<"u", "s", "e", "r", ":", " ", "H", "i", "\n">>
    /\ systemPrompt = <<"o", "k">>

\* the urls of the image parts of one message, in order
ImagesOf(m) ==
    LET imgs == SelectSeq(m.content.parts,
                          LAMBDA p : p.type = "image_url" /\ p.url # "") IN
    [k \in 1..Len(imgs) |-> imgs[k].url]

\* the urls of the image parts of the user messages, in encounter order
RECURSIVE ExpectedImageUrls(_)
ExpectedImageUrls(messages) ==
    IF Len(messages) = 0 THEN <<>>
    ELSE ExpectedImageUrls(SubSeq(messages, 1, Len(messages) - 1))
         \o (IF messages[Len(messages)].role = "user"
             THEN ImagesOf(messages[Len(messages)]) ELSE <<>>)

\* the messages of the request that are not system messages, in order
RemainingMessages ==
    SelectSeq(requestBody.messages.items, LAMBDA m : m.role # "system")

\* extractImageUrls has run to its end
ImagesExtracted == npc = "imagesExtracted" \/ userContent.defined

\* C17: after image extraction, imageUrls holds the urls of the image parts
\* of the user-role messages in encounter order (across messages and within
\* a message); the content of every user message that was a sequence holds
\* its Text parts, in order, and nothing else; every other message is
\* unchanged, so image parts of non-user messages are never added to
\* imageUrls; and the backend input built has no image field when imageUrls
\* is empty and has image equal to the last element of imageUrls otherwise.
C17_ImageExtraction ==
    /\ ImagesExtracted =>
          /\ imageUrls = ExpectedImageUrls(requestBody.messages.items)
          /\ Len(work) = Len(RemainingMessages)
          /\ \A i \in 1..Len(work) :
                LET m == RemainingMessages[i] IN
                IF m.role = "user" /\ m.content.kind = "array"
                THEN /\ work[i].role = "user"
                     /\ work[i].content.kind = "array"
                     /\ work[i].content.parts =
                           SelectSeq(m.content.parts, LAMBDA p : p.type = "text")
                ELSE work[i] = m
          /\ \A j \in 1..Len(imageUrls) :
                \E i \in 1..Len(requestBody.messages.items) :
                    LET m == requestBody.messages.items[i] IN
                    /\ m.role = "user"
                    /\ \E k \in 1..Len(m.content.parts) :
                          m.content.parts[k].type = "image_url"
                          /\ m.content.parts[k].url = imageUrls[j]
    /\ npc = "built" =>
          /\ input.hasImage = (imageUrls # <<>>)
          /\ input.hasImage => input.image = imageUrls[Len(imageUrls)]

\* two user messages with two images and one image: the last image is sent
C17_Witness ==
    /\ npc = "built"
    /\ requestBody.messages.items =
          << Message("user", ArrayContent(<<TextPart(<<"H", "i">>), ImagePart("url-1"),
                                            TextPart(<<"o", "k">>), ImagePart("url-2")>>)),
             Message("user", ArrayContent(<<ImagePart("url-3")>>)) >>
    /\ imageUrls = <<"url-1", "url-2", "url-3">>
    /\ input.hasImage /\ input.image = "url-3"
    /\ work[1].content.parts = <<TextPart(<<"H", "i">>), TextPart(<<"o", "k">>)>>

\* the texts joined by single spaces
RECURSIVE SpaceJoined(_)
SpaceJoined(texts) ==
    IF Len(texts) = 0 THEN <<>>
    ELSE IF Len(texts) = 1 THEN texts[1]
    ELSE SpaceJoined(SubSeq(texts, 1, Len(texts) - 1)) \o <<" ">> \o texts[Len(texts)]

\* the line "<role>: <text>" and a newline of a message
ExpectedLine(m) ==
    RoleText(m.role) \o <<":", " ">>
    \o (IF m.content.kind = "array"
        THEN LET texts == SelectSeq(m.content.parts, LAMBDA p : p.type = "text") IN
             SpaceJoined([k \in 1..Len(texts) |-> texts[k].text])
        ELSE m.content.text)
    \o <<"\n">>

\* the concatenation of the lines of the messages
RECURSIVE ExpectedConversation(_)
ExpectedConversation(messages) ==
    IF Len(messages) = 0 THEN <<>>
    ELSE ExpectedConversation(SubSeq(messages, 1, Len(messages) - 1))
         \o ExpectedLine(messages[Len(messages)])

\* the content of the message, as the request carries it, is not empty
HasNonEmptyContent(m) ==
    \/ m.content.kind = "string" /\ m.content.text # <<>>
    \/ m.content.kind = "array" /\ m.content.parts # <<>>

\* the content is a non-empty string, or a sequence of parts (of any length)
HasStringOrSequence(m) ==
    \/ m.content.kind = "string" /\ m.content.text # <<>>
    \/ m.content.kind = "array"

\* every message of the request has a role
AllHaveRole ==
    \A i \in 1..Len(requestBody.messages.items) : requestBody.messages.items[i].role # ""

\* C18 as stated: the conversation text is the concatenation, in message
\* order, of one line per remaining (non-system) message with non-empty
\* content, each line being "<role>: <text>" followed by a newline, where
\* <text> is the content string, or the texts of the Text parts joined by
\* single spaces.
C18_LinePerNonEmptyMessage ==
    (userContent.defined /\ AllHaveRole) =>
        userContent.text =
           ExpectedConversation(SelectSeq(RemainingMessages, HasNonEmptyContent))

\* C18, amended: the conversation text is the concatenation, in message
\* order, of one line per remaining (non-system) message that has a role and
\* whose content is a non-empty string or a sequence of parts (an empty
\* sequence included), each line being "<role>: <text>" followed by a
\* newline, where <text> is the content string, or the texts of the Text
\* parts (an absent text counting as empty) joined by single spaces.
C18_LinePerMessage ==
    userContent.defined =>
        userContent.text =
           ExpectedConversation(
              SelectSeq(RemainingMessages, LAMBDA m : m.role # "" /\ HasStringOrSequence(m)))

\* a user message with two texts and two images, then an assistant message
C18_Witness ==
    /\ npc = "returned"
    /\ requestBody.messages.items =
          << Message("user", ArrayContent(<<TextPart(<<"H", "i">>), ImagePart("url-1"),
                                            TextPart(<<"o", "k">>), ImagePart("url-2")>>)),
             Message("assistant", StringContent(<<"o", "k">>)) >>
    /\ userContent.text =
          <<"u", "s", "e", "r", ":", " ", "H", "i", " ", "o", "k", "\n",
            "a", "s", "s", "i", "s", "t", "a", "n", "t", ":", " ", "o", "k", "\n">>

\* the messages of the request whose content is missing, the empty string or
\* (when sequences count) an empty sequence
IsEmptyOrAbsent(m, sequencesCount) ==
    \/ m.content.kind = "absent"
    \/ m.content.kind = "string" /\ m.content.text = <<>>
    \/ sequencesCount /\ m.content.kind = "array" /\ m.content.parts = <<>>

\* the number of lines the remaining messages other than the empty ones have
LinesWithout(sequencesCount) ==
    Len(SelectSeq(RemainingMessages,
                  LAMBDA m : m.role # "" /\ ~IsEmptyOrAbsent(m, sequencesCount)))

\* C19 as stated: a message whose content is missing, the empty string or an
\* empty sequence of parts contributes nothing to the conversation text, not
\* even its role prefix: the text has the lines of the other messages only.
C19_EmptyContentSkipped ==
    (userContent.defined /\ AllHaveRole) =>
        Len(SplitLines(userContent.text)) = LinesWithout(TRUE)

\* C19, amended: a message whose content is missing or the empty string
\* contributes nothing to the conversation text, not even its role prefix;
\* a message (with a role) whose content is a sequence always contributes a
\* line, and when the sequence holds no Text part that line is the role
\* prefix "<role>: " alone.
C19_AbsentContentSkipped ==
    userContent.defined =>
        /\ Len(SplitLines(userContent.text)) = LinesWithout(FALSE)
        /\ \A i \in 1..Len(SplitLines(userContent.text)) :
              LET m == SelectSeq(RemainingMessages,
                                 LAMBDA x : x.role # "" /\ ~IsEmptyOrAbsent(x, FALSE))[i] IN
              (m.content.kind = "array"
                  /\ \A k \in 1..Len(m.content.parts) : m.content.parts[k].type # "text") =>
                 SplitLines(userContent.text)[i] = RoleText(m.role) \o <<":", " ">>

\* a message with the content "" and a message with the content []: the
\* text is the role prefix of the second
C19_Witness ==
    /\ npc = "returned"
    /\ requestBody.messages.items =
          << Message("user", StringContent(<<>>)), Message("user", ArrayContent(<<>>)) >>
    /\ userContent.defined
    /\ userContent.text = <<"u", "s", "e", "r", ":", " ", "\n">>

\* the messages field is not a list, is empty, or holds a null message or a
\* null part
MalformedMessages(messages) ==
    \/ ~messages.isList
    \/ Len(messages.items) = 0
    \/ HasNullMessage(messages.items)
    \/ \E i \in 1..Len(messages.items) :
          ~messages.items[i].isNull /\ HasNullPart(messages.items[i])

C21_MaxTokensWithinLimits ==
    /\ ValidateMaxTokens(Undefined) = Num(MAX_TOKENS_CONFIG.DEFAULT)
    /\ \A v \in MaxTokensValues :
          v.type = "number" =>
             ValidateMaxTokens(v) =
                IF v.n = 0 \/ v.n < MAX_TOKENS_CONFIG.MINIMUM
                THEN Num(MAX_TOKENS_CONFIG.DEFAULT)
                ELSE IF v.n > MAX_TOKENS_CONFIG.MAXIMUM
                     THEN Num(MAX_TOKENS_CONFIG.MAXIMUM)
                     ELSE v
    /\ \A i \in 1..Len(calls) :
          /\ calls[i].input.max_tokens.type = "number"
          /\ calls[i].input.max_tokens.n >= MAX_TOKENS_CONFIG.MINIMUM
          /\ calls[i].input.max_tokens.n <= MAX_TOKENS_CONFIG.MAXIMUM

\* C22: no log entry holds content: the entries written for the raw items of
\* the backend stream hold no character of the items' text (so two runs that
\* differ only in those characters, lengths and counts being equal, write the
\* same entries).
C22_NoContentInLogs ==
    \A i \in 1..Len(raws) : SkipLog(raws[i]).preview = <<>>

\* the credential a request carries in its own header
OwnKey(r) == Credential(sessions[r].authHeader)

\* the model name a request is answered under
OwnModelName(r) ==
    IF sessions[r].requestModel = "" THEN PROXY_MODEL_NAME ELSE sessions[r].requestModel

\* the prompt built from the request's own message
OwnPrompt(r) == <<"u", "s", "e", "r", ":", " ">> \o sessions[r].content \o <<"\n">>

\* the frames of a request that runs alone and is streamed the texts of its
\* own call: the role chunk, one content chunk per text, the finish chunk and
\* the [DONE] line, each with the request's own completion id and model name
AloneFrames(r) ==
    LET body == <<RoleFrame, ContentFrame(OwnKey(r)), ContentFrame(OwnPrompt(r)),
                  FinishFrame, DoneFrame>>
    IN [k \in 1..Len(body) |->
           SessionFrame(sessions[r].chatCompletionId, OwnModelName(r), body[k])]

\* C23: in every interleaving of two requests, the backend call of a request
\* is made with its own credential, the id of its own model and its own
\* prompt; its status and its frames are those of the request running alone
\* (the frames so far are a prefix of them, and all of them once the stream
\* is closed); and no frame of a request carries the completion id of the
\* other.
C23_RequestsDoNotInterfere ==
    \A r \in SessionIds :
       LET s == sessions[r] IN
       /\ s.call.made =>
             /\ s.call.key = OwnKey(r)
             /\ s.call.model = MODEL_MAPPING[OwnModelName(r)]
             /\ s.call.prompt = OwnPrompt(r)
       /\ s.pc = "answered" => (s.status = 401 /\ Len(OwnKey(r)) < 10 /\ ~s.call.made)
       /\ s.pc \in {"streaming", "closed"} => (s.status = 200 /\ Len(OwnKey(r)) >= 10)
       /\ Len(s.frames) <= Len(AloneFrames(r))
       /\ \A k \in 1..Len(s.frames) : s.frames[k] = AloneFrames(r)[k]
       /\ s.pc = "closed" => s.frames = AloneFrames(r)
       /\ \A q \in SessionIds \ {r} :
             \A k \in 1..Len(s.frames) :
                s.frames[k].id # sessions[q].chatCompletionId

\* both requests were streamed to the end, with different credentials,
\* models and prompts
C23_Witness ==
    /\ sessions # <<>>
    /\ \A r \in SessionIds : sessions[r].pc = "closed"
    /\ OwnKey(1) # OwnKey(2)
    /\ sessions[1].requestModel # sessions[2].requestModel
    /\ sessions[1].content # sessions[2].content

\* the events of the for-await loop over the backend stream (those yielded
\* before the fallback, if the stream failed)
NativeEvents == IF streamState = "failed" THEN SubSeq(events, 1, fbStart) ELSE events

\* the events other than Done
WithoutDone(evs) == SelectSeq(evs, LAMBDA e : e # DoneEvent)

\* the raw item is an object with the field event "done" or "completed"
HasDoneEvent(item) ==
    item.kind = "object" /\ item.hasEvent /\ item.event \in {"done", "completed"}

\* C24: when every raw item received so far is a string, the Output events
\* carry, in arrival order, exactly the strings that are non-empty and are
\* none of "{}", "[]", "null", "undefined": one Output per such string, and
\* no Output for the empty string and the four sentinels only.
C24_OutputPerString ==
    (\A i \in 1..Len(raws) : raws[i].kind = "string") =>
        OutputTexts(NativeEvents) =
           LET kept == SelectSeq(raws, LAMBDA item :
                          item.data.text # <<>> /\ item.data.text \notin InvalidSentinels)
           IN [i \in 1..Len(kept) |-> kept[i].data.text]

\* the event C25 states for a raw item
StatedEvent(item) ==
    IF item.kind = "string"
    THEN IF IsValidTextContent(item.data) THEN OutputEvent(item.data.text) ELSE NoEvent
    ELSE IF item.kind = "object" /\ item.hasEvent /\ item.hasData
    THEN IF item.event = "output" /\ IsValidTextContent(item.data)
         THEN OutputEvent(item.data.text)
         ELSE IF item.event \in {"done", "completed"} THEN DoneEvent ELSE NoEvent
    ELSE IF item.kind = "object" /\ item.hasData /\ ~item.hasEvent
    THEN IF IsValidTextContent(item.data) THEN OutputEvent(item.data.text) ELSE NoEvent
    ELSE NoEvent

RECURSIVE StatedEvents(_)
StatedEvents(items) ==
    IF items = <<>> THEN <<>>
    ELSE (IF StatedEvent(Head(items)) = NoEvent THEN <<>> ELSE <<StatedEvent(Head(items))>>)
         \o StatedEvents(Tail(items))

\* C25: the events of the loop are, item by item: for an object with both
\* event and data, Output(data) exactly when event is "output" and data is
\* valid text, Done exactly when event is "done" or "completed", else
\* nothing; for an object with data and no event, Output(data) exactly when
\* data is valid text; nothing for every other object and non-string value;
\* followed by the Done of the end of the stream; and no item makes the
\* generator raise.
C25_ObjectItems ==
    /\ NativeEvents =
          StatedEvents(raws) \o (IF streamState = "ended" THEN <<DoneEvent>> ELSE <<>>)
    /\ genPc = "thrown" => streamState = "failed"

\* objects of every shape were received and the stream ended
C25_Witness ==
    /\ streamState = "ended"
    /\ raws = << RawObject(TRUE, "output", TRUE, Str(TxtLlo)),
                 RawObject(TRUE, "error", TRUE, Str(TxtHe)),
                 RawObject(FALSE, "", TRUE, Str(TxtLlo)) >>
    /\ events = <<OutputEvent(TxtLlo), OutputEvent(TxtLlo), DoneEvent>>

\* C26 as stated: a raw item with event "done" or "completed" is the last
\* item received, and no Output follows a Done.
C26_NothingAfterDoneEvent ==
    /\ \A i \in 1..Len(raws) : HasDoneEvent(raws[i]) => i = Len(raws)
    /\ \A i \in 1..Len(events) : \A j \in 1..Len(events) :
          (i < j /\ events[i] = DoneEvent) => events[j].event # "output"

\* C26, amended: a raw item that is an object with both an event field and a
\* data field and whose event is "done" or "completed" is the last item
\* received (the generator consumes no item after it), and no Output event
\* follows a Done.
C26_NothingAfterDone ==
    /\ \A i \in 1..Len(raws) : (HasDoneEvent(raws[i]) /\ raws[i].hasData) => i = Len(raws)
    /\ \A i \in 1..Len(events) : \A j \in 1..Len(events) :
          (i < j /\ events[i] = DoneEvent) => events[j].event # "output"

\* an output, then a `completed` item: Done was emitted and the generator
\* left the loop with the stream still open
C26_Witness ==
    /\ raws = <<RawString(TxtHe), RawObject(TRUE, "completed", TRUE, Str(TxtHe))>>
    /\ events = <<OutputEvent(TxtHe), DoneEvent>>
    /\ streamState = "open"
    /\ encPc = "closed"

\* C27: every Output event, of the loop over the stream or of the fallback,
\* carries a non-empty text whose trimmed form is neither empty nor one of
\* "{}", "[]", "null", "undefined".
C27_OutputsAreValidText ==
    \A i \in 1..Len(events) :
       events[i].event = "output" =>
          /\ events[i].data # <<>>
          /\ Trim(events[i].data) # <<>>
          /\ Trim(events[i].data) \notin {TxtBraces, TxtBrackets, TxtNull, TxtUndefined}

\* an Output of the stream and an Output of the fallback, with dropped items
\* and a dropped slice in between
C27_Witness ==
    /\ raws = <<RawString(TxtBlank), RawString(TxtHe), RawString(TxtBraces)>>
    /\ streamState = "failed"
    /\ runResult = PredString(TxtTailNull)
    /\ events = <<OutputEvent(TxtHe), OutputEvent(Txt15), DoneEvent>>

\* C28: when the backend stream ended without an error and no item was an
\* explicit done/completed, the last event is Done and it is the only Done,
\* also when no Output was emitted.
C28_TrailingDone ==
    (streamState = "ended" /\ \A i \in 1..Len(raws) : StatedEvent(raws[i]) # DoneEvent) =>
        /\ events # <<>>
        /\ events[Len(events)] = DoneEvent
        /\ \A i \in 1..(Len(events) - 1) : events[i].event = "output"

\* the stream ended after items that were all dropped: Done is the only event
C28_Witness ==
    /\ streamState = "ended"
    /\ raws = <<RawString(TxtEmpty), RawOther>>
    /\ events = <<DoneEvent>>
    /\ encPc = "closed"

\* C29: when the stream call failed and the fallback call failed too, the
\* generator has raised: it emitted no Done, the error it raised is the
\* classification of the fallback's failure and carries a status, and once
\* the consumer has resumed it has observed that error (its last frame is the
\* in-band error of that error and the stream is errored, not closed).
C29_FallbackFailurePropagates ==
    (isStream /\ streamState = "failed" /\ runState = "failed") =>
        /\ genPc = "thrown"
        /\ \A i \in 1..Len(events) : events[i] # DoneEvent
        /\ genError = HandleReplicateError(runError)
        /\ genError.status \in 100..599
        /\ encPc \in {"iterating", "delay", "errored"}
        /\ (encPc = "iterating" /\ held = NoEvent) => want
        /\ encPc = "errored" =>
              /\ frames # <<>>
              /\ frames[Len(frames)] = ErrorFrame(genError)
              /\ \A i \in 1..Len(frames) : frames[i].type # "done"

\* the stream failed after an Output, the fallback failed with an error
\* without status, and the consumer caught the error classified as 500
C29_Witness ==
    /\ isStream /\ streamState = "failed" /\ runState = "failed"
    /\ events = <<OutputEvent(TxtHe)>>
    /\ runError = BackendError(0, 0, FALSE)
    /\ genError.status = 500
    /\ encPc = "errored"

\* C30: the error raised for a failed backend call is: with the status of
\* the attached HTTP response and with that response attached, if the
\* failure carries a response; the failure itself, unchanged, if it carries
\* no response but a status; otherwise an error with status 500 and the
\* message of the failure; in every case it carries a status.  In streaming
\* mode it is the error the generator raises, in synchronous mode the one
\* the response is built from.
C30_ErrorClassification ==
    runState = "failed" =>
        LET raised == HandleReplicateError(runError) IN
        /\ runError.response # 0 =>
              /\ raised.status = runError.response
              /\ raised.response = runError.response
        /\ (runError.response = 0 /\ runError.status # 0) => raised = runError
        /\ (runError.response = 0 /\ runError.status = 0) =>
              /\ raised.status = 500
              /\ raised.marker = runError.marker
        /\ raised.status # 0
        /\ isStream => genError = raised
        /\ (~isStream /\ race["call"] = "rejected" /\ ~runLate /\ ~runError.marker
                /\ race["chat"] = "resolved" /\ respCount = 1) =>
              resp.status = raised.status

\* a failure with a response of status 502 and an own status of 400 was
\* answered 502 in synchronous mode
C30_Witness ==
    /\ ~isStream
    /\ runState = "failed"
    /\ runError = BackendError(502, 400, FALSE)
    /\ respCount = 1
    /\ resp.status = 502

\* C31: the response built from a classified backend error carries the
\* classified status, and its type (for 404: its code) is chosen by that
\* status: 400 invalid_request_error, 401 authentication_error, 403
\* permission_error, 404 model_not_found, 429 rate_limit_error, any other
\* status api_error.
C31_ReplicateErrorResponse ==
    (/\ ~isStream /\ runState = "failed" /\ race["call"] = "rejected"
     /\ ~runLate /\ ~runError.marker
     /\ race["chat"] = "resolved" /\ respCount = 1) =>
        LET st == HandleReplicateError(runError).status IN
        /\ resp.status = st
        /\ resp.body = ErrorObjectBody
        /\ st = 400 => resp.type = "invalid_request_error"
        /\ st = 401 => resp.type = "authentication_error"
        /\ st = 403 => resp.type = "permission_error"
        /\ st = 404 => resp.code = "model_not_found"
        /\ st = 429 => resp.type = "rate_limit_error"
        /\ st \notin {400, 401, 403, 404, 429} => resp.type = "api_error"

\* a backend failure with a 403 response was answered 403 permission_error
C31_Witness ==
    /\ ~isStream
    /\ runState = "failed"
    /\ runError = BackendError(403, 0, FALSE)
    /\ respCount = 1
    /\ resp.status = 403
    /\ resp.type = "permission_error"

\* the frames the loop body of handleStreamResponse enqueues for evs
RECURSIVE EncodeAll(_, _)
EncodeAll(evs, first) ==
    IF evs = <<>> THEN <<>>
    ELSE EncodeEvent(Head(evs), first) \o EncodeAll(Tail(evs), FALSE)

\* the events the encoder has taken from the generator and encoded
Emitted == IF held = NoEvent THEN events ELSE SubSeq(events, 1, Len(events) - 1)

\* the frames enqueued by the loop body (the catch block's error frame
\* excluded)
LoopFrames ==
    IF encPc = "errored" THEN SubSeq(frames, 1, Len(frames) - 1) ELSE frames

\* C32: in streaming mode the chunk of event i is enqueued before event
\* i+1 is requested: whenever the generator is asked for its next event no
\* event is held back, at most the last event produced is not yet encoded,
\* and the frames on the stream are the encodings of the events produced
\* before it, in the order of their production.
C32_ChunksInEventOrder ==
    isStream =>
        /\ want => held = NoEvent
        /\ held # NoEvent => (events # <<>> /\ held = events[Len(events)])
        /\ LoopFrames = EncodeAll(Emitted, TRUE)

\* two events were encoded in order and a third one is held
C32_Witness ==
    /\ isStream
    /\ Len(events) = 3
    /\ held = events[3]
    /\ events[1].event = "output" /\ events[2].event = "output"
    /\ events[1] # events[2]
    /\ frames = <<RoleFrame, ContentFrame(events[1].data), ContentFrame(events[2].data)>>

\* the texts of the content chunks among the frames fs, in order
RECURSIVE DeltaTexts(_)
DeltaTexts(fs) ==
    IF fs = <<>> THEN <<>>
    ELSE (IF Head(fs).type = "chunk" /\ Head(fs).role = ""
             /\ Head(fs).finish_reason = ""
          THEN <<Head(fs).content>> ELSE <<>>)
         \o DeltaTexts(Tail(fs))

\* every 15-character slice of t passes isValidTextContent
AllSlicesValid(t) ==
    \A i \in 1..Len(SlicesOf(t, chunkSize)) :
        IsValidTextContent(Str(SlicesOf(t, chunkSize)[i]))

\* C33: when the native stream failed, at whatever point, and the fallback
\* call returned a text (valid as a whole and in each of its slices), the
\* concatenation of the content deltas on the closed response stream is
\* that text: nothing of the failed native stream is delivered besides it.
C33_NoDuplicateAfterFallback ==
    (/\ FallbackCompleted /\ encPc = "closed"
     /\ runResult.kind = "string"
     /\ IsValidTextContent(Str(runResult.parts[1]))
     /\ AllSlicesValid(runResult.parts[1])) =>
        ConcatAll(DeltaTexts(frames)) = runResult.parts[1]

\* the positions of the Done events among evs
DonePositions(evs) == {i \in 1..Len(evs) : evs[i] = DoneEvent}

\* C34: when streamModelResponse is over without having raised, its event
\* sequence holds exactly one Done, and the Done is the last event.
C34_ExactlyOneDoneLast ==
    (isStream /\ GeneratorEnded) =>
        /\ Cardinality(DonePositions(events)) = 1
        /\ events[Len(events)] = DoneEvent

\* C35: a response stream that was closed without error holds exactly one
\* role chunk, which is its first frame, exactly one finish chunk and
\* exactly one `data: [DONE]` line, which are its last two frames in that
\* order.
C35_ClosedBodyIsWellFormed ==
    (isStream /\ encPc = "closed") =>
        /\ Len(frames) >= 3
        /\ IsRoleOnlyChunk(frames[1])
        /\ IsFinishChunk(frames[Len(frames) - 1])
        /\ frames[Len(frames)] = DoneFrame
        /\ Cardinality({i \in 1..Len(frames) : IsRoleOnlyChunk(frames[i])}) = 1
        /\ Cardinality({i \in 1..Len(frames) : IsFinishChunk(frames[i])}) = 1
        /\ Cardinality({i \in 1..Len(frames) : frames[i] = DoneFrame}) = 1

\* the positions of the in-band error frames on the response stream
ErrorPositions == {i \in 1..Len(frames) : frames[i].type = "error"}

\* C36: when the stream call and the fallback call both failed and the
\* encoder has handled the failure, the response stream is in the errored
\* state and holds exactly one in-band error frame, which is its last
\* frame; it holds no finish chunk and no `data: [DONE]` line; and if no
\* event preceded the failure the error frame is its only frame (no role
\* chunk).  An error frame is never on a stream that is not errored.
C36_ErrorFrameEndsStream ==
    /\ (isStream /\ streamState = "failed" /\ runState = "failed"
            /\ encPc \notin {"iterating", "delay"}) =>
          /\ encPc = "errored"
          /\ ErrorPositions = {Len(frames)}
          /\ frames[Len(frames)] = ErrorFrame(HandleReplicateError(runError))
          /\ \A i \in 1..Len(frames) :
                ~IsFinishChunk(frames[i]) /\ frames[i] # DoneFrame
          /\ events = <<>> => Len(frames) = 1
    /\ ErrorPositions # {} => encPc = "errored"

\* the stream call failed after one event and the fallback call failed: the
\* stream holds the role chunk, the content chunk and the error frame
C36_Witness ==
    /\ isStream /\ encPc = "errored"
    /\ streamState = "failed" /\ runState = "failed"
    /\ Len(events) = 1
    /\ Len(frames) = 3
    /\ IsRoleOnlyChunk(frames[1])
    /\ frames[3].type = "error"

\* the handler answered the request with the 400 "invalid_messages"
RejectedAsInvalidMessages ==
    /\ hpc = "rejected" /\ respCount >= 1
    /\ resp.status = 400 /\ resp.code = ERROR_CODES.INVALID_MESSAGES

\* C37: a chat-completion request that passed the checks of the header, of
\* the JSON body and of the model name is answered 400 "invalid_messages"
\* exactly when processMessages returns an undefined conversation text; a
\* non-empty list of well-formed messages is never answered so.
C37_InvalidMessagesIffUndefined ==
    (BodyWasParsed /\ ValidateRequestModel(requestModel).isValid) =>
        LET pm == ProcessMessages(requestBody.messages) IN
        /\ RejectedAsInvalidMessages => ~pm.userContent.defined
        /\ (~pm.userContent.defined /\ race["chat"] = "resolved") =>
              RejectedAsInvalidMessages
        /\ ~MalformedMessages(requestBody.messages) => ~RejectedAsInvalidMessages

\* the four checks of handleChatCompletionRequestInternal, on the request
AuthPasses == ValidateAndExtractApiKey(authHeader).isValid
JsonPasses == ~JsonCatch(requestBody)
ModelPasses == ValidateRequestModel(requestModel).isValid
MessagesPass ==
    LET pm == ProcessMessages(requestBody.messages) IN
    pm.userContent.defined /\ pm.userContent.text # <<>>

\* the client has the response with this status and code, and no other
AnsweredOnly(st, co) == respCount = 1 /\ resp.status = st /\ resp.code = co

\* C38: the checks run in the order header, JSON body, model name,
\* messages, and the first one that fails determines the response, whatever
\* the later ones would say: 401 for the header, 400 "invalid_json", 400
\* "model_not_found", 400 "invalid_messages"; and the backend is called
\* only for a request that passes all four.
C38_ValidationOrder ==
    (route = "chat" /\ fault.point = "none" /\ hpc \notin {"start", "parsing"}) =>
        /\ ~AuthPasses => resp.status = 401 /\ respCount = 1
        /\ (AuthPasses /\ race["chat"] = "resolved") =>
              /\ ~JsonPasses => AnsweredOnly(400, ERROR_CODES.INVALID_JSON)
              /\ (JsonPasses /\ ~ModelPasses) =>
                    AnsweredOnly(400, "model_not_found")
              /\ (JsonPasses /\ ModelPasses /\ ~MessagesPass) =>
                    AnsweredOnly(400, ERROR_CODES.INVALID_MESSAGES)
        /\ calls # <<>> => (AuthPasses /\ JsonPasses /\ ModelPasses /\ MessagesPass)

\* a request with no Authorization header, a body that is not JSON and an
\* unknown model name was answered 401
C38_Witness ==
    /\ route = "chat" /\ hpc = "rejected"
    /\ authHeader = NoHeader
    /\ requestBody.json = "malformed"
    /\ requestModel = "unknown-model"
    /\ resp.status = 401 /\ respCount = 1
    /\ calls = <<>>

\* C39: processMessages leaves the caller's request body as it was: at
\* every point of a call and after it, the caller's messages list, its
\* messages and their content parts equal those of the body received; the
\* removals of system messages and of image parts are made on the copy.
C39_RequestBodyUnchanged ==
    callerBody.messages = requestBody.messages

\* processMessages returned after it removed a system message and an image
\* part from its copy of a body that still holds both
C39_Witness ==
    /\ npc = "returned" /\ userContent.defined
    /\ callerBody.messages = requestBody.messages
    /\ Len(work) < Len(callerBody.messages.items)
    /\ \E i \in 1..Len(work) :
          \E j \in 1..Len(callerBody.messages.items) :
             /\ work[i].role = "user" /\ work[i].content.kind = "array"
             /\ callerBody.messages.items[j].role = "user"
             /\ callerBody.messages.items[j].content.kind = "array"
             /\ Len(work[i].content.parts)
                   < Len(callerBody.messages.items[j].content.parts)

\* the response stream was closed or put in the errored state
StreamSettled == encPc \in {"closed", "errored"}

\* C40: if every backend call settles, every streaming response is
\* eventually closed or errored: start() never leaves the stream open.
C40_StreamEventuallySettles == (isStream /\ hpc = "start") ~> StreamSettled

\* the stream was closed after the stream call failed and the fallback call
\* returned nothing: the loop ended without a Done
C40_Witness ==
    /\ isStream /\ encPc = "closed"
    /\ streamState = "failed" /\ runState = "returned"
    /\ ~Truthy(runResult)
    /\ events = <<>>

====
